---------------------------- MODULE Spec2Model ----------------------------
(***************************************************************************)
(* A model of the woff2-rs decoder (convert_woff2_to_ttf and the parsers   *)
(* and writers it drives).                                                 *)
(*                                                                         *)
(* Bytes are naturals 0..255 and buffers are sequences of bytes.  A u32    *)
(* read from the input as a UIntBase128 (the lengths and offsets of the     *)
(* WOFF2 table directory) or taking part in wrapping arithmetic (a         *)
(* checksum) is a pair <<hi, lo>> of its 16-bit halves, so that every      *)
(* value below 2^32 and every sum modulo 2^32 is exact; a length or an     *)
(* offset of a buffer of the model is a natural.                           *)
(***************************************************************************)
EXTENDS Integers, Sequences, FiniteSets, TLC

(***************************************************************************)
(* Bounds of the model.                                                    *)
(***************************************************************************)
\* largest num_tables of a generated non-collection input
MaxTables == 3
\* largest num_tables of a generated collection (flavor ttcf) input
MaxCollTables == 2
\* largest numFonts of a generated collection directory
MaxFonts == 2
\* largest numTables of one font of a generated collection directory
MaxFontTables == 2
\* largest total_compressed_size of a generated header
MaxCompressedSize == 2

(***************************************************************************)
(* Byte and integer helpers.                                               *)
(***************************************************************************)
Byte == 0..255

\* BufMut::put_u16 / put_u32 / put_i16: big-endian bytes of a value
put_u16(n) == <<(n \div 256) % 256, n % 256>>

put_u32(n) == <<(n \div 16777216) % 256, (n \div 65536) % 256, (n \div 256) % 256, n % 256>>

put_i16(v) == put_u16(IF v < 0 THEN v + 65536 ELSE v)

\* a wrapping u32 as the pair of its 16-bit halves
u32_from_be_bytes(b0, b1, b2, b3) == <<b0 * 256 + b1, b2 * 256 + b3>>

u32_to_be_bytes(w) == put_u16(w[1]) \o put_u16(w[2])

\* Wrapping<u32> addition
wrapping_add(a, b) ==
    LET lo == a[2] + b[2]
        hi == a[1] + b[1] + (lo \div 65536)
    IN  <<hi % 65536, lo % 65536>>

\* u32::wrapping_sub
wrapping_sub(a, b) ==
    LET lo == a[2] - b[2]
        borrow == IF lo < 0 THEN 1 ELSE 0
        hi == a[1] - b[1] - borrow
    IN  <<(hi + 65536) % 65536, (lo + 65536) % 65536>>

\* the u32 <<hi, lo>> of a natural below 2^31
u32_of(n) == <<n \div 65536, n % 65536>>

\* u32 as usize (usize of 64 bits).  A value of 2^29 or more is given as
\* 2^29: the buffers of the model are far shorter, so every comparison of
\* such a value, or of a sum of two, with a buffer length comes out as it
\* does for the value itself.
as_usize(w) == IF w[1] >= 8192 THEN 8192 * 65536 ELSE w[1] * 65536 + w[2]

\* the elements s[from+1 .. to] of s (the Rust slice s[from..to])
Slice(s, from, to) == SubSeq(s, from + 1, to)

Zeros(n) == [i \in 1..n |-> 0]

\* LET x == value IN In(x), with value written (and evaluated) once
Let(value, In(_)) == In(value)

(***************************************************************************)
(* FourCC tags: four bytes, compared byte-wise.                            *)
(***************************************************************************)
WOFF2_SIGNATURE == <<119, 79, 70, 50>>
TTF_COLLECTION_FLAVOR == <<116, 116, 99, 102>>
TTF_TRUE_TYPE_FLAVOR == <<0, 1, 0, 0>>
TTF_CFF_FLAVOR == <<79, 84, 84, 79>>

GLYF_TAG == <<103, 108, 121, 102>>
LOCA_TAG == <<108, 111, 99, 97>>
HEAD_TAG == <<104, 101, 97, 100>>
HMTX_TAG == <<104, 109, 116, 120>>

\* Ord for [u8; 4]: lexicographic on the bytes
TagLess(a, b) ==
    \E i \in 1..4 : a[i] < b[i] /\ \A j \in 1..(i - 1) : a[j] = b[j]

TagLeq(a, b) == a = b \/ TagLess(a, b)

(***************************************************************************)
(* checksum.rs                                                             *)
(***************************************************************************)
CHECKSUM_MINUEND == <<45488, 44986>>    \* 0xB1B0AFBA

RECURSIVE SumChunks(_, _, _)
\* the wrapping sum of the whole 4-byte chunks data[4i..4i+4], i < n, added to acc
SumChunks(data, n, acc) ==
    IF n = 0 THEN acc
    ELSE SumChunks(data, n - 1,
             wrapping_add(acc, u32_from_be_bytes(data[4 * n - 3], data[4 * n - 2],
                                                 data[4 * n - 1], data[4 * n])))

\* calculate_checksum with the remainder taken as a number: right-aligned
\* in its word
calculate_checksum_tail_right_aligned(data) ==
    LET n == Len(data) \div 4
        r == Len(data) % 4
        last == CASE r = 0 -> <<0, 0>>
                  [] r = 1 -> u32_from_be_bytes(0, 0, 0, data[4 * n + 1])
                  [] r = 2 -> u32_from_be_bytes(0, 0, data[4 * n + 1], data[4 * n + 2])
                  [] r = 3 -> u32_from_be_bytes(0, data[4 * n + 1], data[4 * n + 2],
                                                data[4 * n + 3])
    IN  wrapping_add(SumChunks(data, n, <<0, 0>>), last)

calculate_checksum(data) ==
    LET n == Len(data) \div 4
        r == Len(data) % 4
        last == CASE r = 0 -> <<0, 0>>
                  [] r = 1 -> u32_from_be_bytes(data[4 * n + 1], 0, 0, 0)
                  [] r = 2 -> u32_from_be_bytes(data[4 * n + 1], data[4 * n + 2], 0, 0)
                  [] r = 3 -> u32_from_be_bytes(data[4 * n + 1], data[4 * n + 2],
                                                data[4 * n + 3], 0)
    IN  wrapping_add(SumChunks(data, n, <<0, 0>>), last)

\* set_checksum_adjustment: [err, table]; value is a wrapping u32
set_checksum_adjustment(head_table, value) ==
    IF Len(head_table) < 12
    THEN [err |-> "Truncated", table |-> head_table]
    ELSE [err |-> "",
          table |-> Slice(head_table, 0, 8) \o u32_to_be_bytes(value)
                    \o Slice(head_table, 12, Len(head_table))]

\* calculate_font_checksum_adjustment with the operands of the subtraction
\* exchanged
calculate_font_checksum_adjustment_exchanged(font) ==
    wrapping_sub(calculate_checksum(font), CHECKSUM_MINUEND)

calculate_font_checksum_adjustment(font) ==
    wrapping_sub(CHECKSUM_MINUEND, calculate_checksum(font))

(***************************************************************************)
(* buffer_util.rs: pad_to_multiple_of_four                                 *)
(***************************************************************************)
\* pad_to_multiple_of_four that appends nothing
pad_to_multiple_of_four_omitted(buffer) == buffer

pad_to_multiple_of_four(buffer) ==
    IF Len(buffer) % 4 # 0
    THEN buffer \o Zeros(4 - (Len(buffer) % 4))
    ELSE buffer

(***************************************************************************)
(* buffer_util.rs: readers over a cursor [data, pos].  Every reader        *)
(* returns [err, val, cur]: err = "" on success, and cur is the cursor     *)
(* after the read.                                                         *)
(***************************************************************************)
Cursor(data) == [data |-> data, pos |-> 0]

remaining(c) == Len(c.data) - c.pos

advance(c, n) == [c EXCEPT !.pos = c.pos + n]

Ok(val, cur) == [err |-> "", val |-> val, cur |-> cur]

Err(e, cur) == [err |-> e, val |-> 0, cur |-> cur]

\* SafeBuf::try_get_u8
try_get_u8(c) ==
    IF remaining(c) < 1 THEN Err("Truncated", c)
    ELSE Ok(c.data[c.pos + 1], advance(c, 1))

\* SafeBuf::try_get_u16
try_get_u16(c) ==
    IF remaining(c) < 2 THEN Err("Truncated", c)
    ELSE Ok(c.data[c.pos + 1] * 256 + c.data[c.pos + 2], advance(c, 2))

\* SafeBuf::try_get_i16
try_get_i16(c) ==
    Let(try_get_u16(c), LAMBDA r :
        IF r.err # "" THEN r
        ELSE Ok(IF r.val >= 32768 THEN r.val - 65536 ELSE r.val, r.cur))

\* SafeBuf::try_get_u32 (the generated inputs keep the value below 2^31)
try_get_u32(c) ==
    IF remaining(c) < 4 THEN Err("Truncated", c)
    ELSE Ok(((c.data[c.pos + 1] * 256 + c.data[c.pos + 2]) * 256 + c.data[c.pos + 3]) * 256
            + c.data[c.pos + 4], advance(c, 4))

try_get_four_cc(c) ==
    IF remaining(c) < 4 THEN Err("Truncated", c)
    ELSE Ok(Slice(c.data, c.pos, c.pos + 4), advance(c, 4))

\* the overflow test on one bit too many: accum >> 24
shr_24(accum) == accum[1] \div 256

\* accum >> 25, for the u32 accum
shr_25(accum) == accum[1] \div 512

\* (accum << 7) | ((byte & 0x7F) as u32), for the u32 accum
shl_7_or(accum, byte) ==
    <<(accum[1] * 128 + (accum[2] \div 512)) % 65536,
      ((accum[2] * 128) % 65536) + (byte % 128)>>

RECURSIVE base_128_loop(_, _, _)
\* iteration i (0-based) of the loop of try_get_base_128, with accumulator accum
base_128_loop(c, i, accum) ==
    IF i = 5 THEN Err("MoreThan5Bytes", c)
    ELSE Let(try_get_u8(c), LAMBDA r :
             IF r.err # "" THEN Err("Truncated", r.cur)
             ELSE IF i = 0 /\ r.val = 128 THEN Err("LeadingZero", r.cur)
             ELSE IF shr_25(accum) # 0 THEN Err("Overflow", r.cur)
             ELSE IF r.val \div 128 = 0 THEN Ok(shl_7_or(accum, r.val), r.cur)
             ELSE base_128_loop(r.cur, i + 1, shl_7_or(accum, r.val)))

\* try_get_base_128: val is the u32 <<hi, lo>>
try_get_base_128(c) == base_128_loop(c, 0, <<0, 0>>)

ONE_MORE_BYTE_CODE_1 == 255
ONE_MORE_BYTE_CODE_2 == 254
WORD_CODE == 253
LOWEST_UCODE == 253

\* the arms that read one more byte, without the base added
one_more_byte_without_base(b, base) == b

\* the arms of try_get_255_u16 that read one more byte: base + the byte b read
one_more_byte(b, base) == IF b.err # "" THEN b ELSE Ok(b.val + base, b.cur)

try_get_255_u16(c) ==
    Let(try_get_u8(c), LAMBDA r :
        IF r.err # "" THEN r
        ELSE IF r.val = WORD_CODE THEN try_get_u16(r.cur)
        ELSE IF r.val = ONE_MORE_BYTE_CODE_1 THEN one_more_byte(try_get_u8(r.cur), LOWEST_UCODE)
        ELSE IF r.val = ONE_MORE_BYTE_CODE_2 THEN one_more_byte(try_get_u8(r.cur), 2 * LOWEST_UCODE)
        ELSE Ok(r.val, r.cur))

\* Buf::chunk: a Cursor over a slice offers all its remaining bytes; a Buf
\* that is not contiguous (a record with a chunk_len field) offers its bytes
\* up to the next multiple of chunk_len
chunk(c) ==
    IF "chunk_len" \in DOMAIN c
    THEN LET end == ((c.pos \div c.chunk_len) + 1) * c.chunk_len
         IN  Slice(c.data, c.pos, IF end < Len(c.data) THEN end ELSE Len(c.data))
    ELSE Slice(c.data, c.pos, Len(c.data))

\* the loop of try_copy_to_buf that stops after the first chunk
copy_loop_first_chunk(c, put, num_bytes) ==
    IF Len(chunk(c)) >= num_bytes
    THEN [err |-> "", val |-> put \o SubSeq(chunk(c), 1, num_bytes),
          cur |-> advance(c, num_bytes)]
    ELSE [err |-> "", val |-> put \o chunk(c), cur |-> advance(c, Len(chunk(c)))]

RECURSIVE copy_loop(_, _, _)
\* the loop of try_copy_to_buf, put being the bytes put into dest so far
copy_loop(c, put, num_bytes) ==
    IF Len(chunk(c)) >= num_bytes
    THEN [err |-> "", val |-> put \o SubSeq(chunk(c), 1, num_bytes),
          cur |-> advance(c, num_bytes)]
    ELSE copy_loop(advance(c, Len(chunk(c))), put \o chunk(c), num_bytes - Len(chunk(c)))

\* try_copy_to_buf: val is the bytes appended to dest
try_copy_to_buf(c, num_bytes) ==
    IF remaining(c) < num_bytes THEN Err("Truncated", c)
    ELSE copy_loop(c, <<>>, num_bytes)

(***************************************************************************)
(* woff2/header.rs                                                         *)
(***************************************************************************)
HEADER_SIZE == 48

NoHeader ==
    [signature |-> <<0, 0, 0, 0>>, flavor |-> <<0, 0, 0, 0>>, length |-> 0,
     num_tables |-> 0, reserved |-> 0, total_sfnt_size |-> 0,
     total_compressed_size |-> 0, major_version |-> 0, minor_version |-> 0,
     meta_offset |-> 0, meta_length |-> 0, meta_orig_length |-> 0,
     private_offset |-> 0, private_length |-> 0]

\* Woff2Header::from_buf: [err, val (the header), cur]
Woff2Header_from_buf(c) ==
    IF remaining(c) < HEADER_SIZE THEN [err |-> "Truncated header", val |-> NoHeader, cur |-> c]
    ELSE LET u16at(o) == try_get_u16(advance(c, o)).val
             u32at(o) == try_get_u32(advance(c, o)).val
         IN  [err |-> "",
              val |-> [signature |-> try_get_four_cc(c).val,
                       flavor |-> try_get_four_cc(advance(c, 4)).val,
                       length |-> u32at(8),
                       num_tables |-> u16at(12),
                       reserved |-> u16at(14),
                       total_sfnt_size |-> u32at(16),
                       total_compressed_size |-> u32at(20),
                       major_version |-> u16at(24),
                       minor_version |-> u16at(26),
                       meta_offset |-> u32at(28),
                       meta_length |-> u32at(32),
                       meta_orig_length |-> u32at(36),
                       private_offset |-> u32at(40),
                       private_length |-> u32at(44)],
              cur |-> advance(c, HEADER_SIZE)]

\* is_valid_header that accepts every signature
is_valid_header_any_signature(h) == ""

\* Woff2Header::is_valid_header: "" or the error
is_valid_header(h) ==
    IF h.signature # WOFF2_SIGNATURE THEN "Invalid magic word" ELSE ""

(***************************************************************************)
(* woff2/table_directory.rs: parsing                                       *)
(***************************************************************************)
KNOWN_TABLE_TAGS ==
    <<
        <<99, 109, 97, 112>>, <<104, 101, 97, 100>>, <<104, 104, 101, 97>>, <<104, 109, 116, 120>>,
        <<109, 97, 120, 112>>, <<110, 97, 109, 101>>, <<79, 83, 47, 50>>, <<112, 111, 115, 116>>,
        <<99, 118, 116, 32>>, <<102, 112, 103, 109>>, <<103, 108, 121, 102>>, <<108, 111, 99, 97>>,
        <<112, 114, 101, 112>>, <<67, 70, 70, 32>>, <<86, 79, 82, 71>>, <<69, 66, 68, 84>>,
        <<69, 66, 76, 67>>, <<103, 97, 115, 112>>, <<104, 100, 109, 120>>, <<107, 101, 114, 110>>,
        <<76, 84, 83, 72>>, <<80, 67, 76, 84>>, <<86, 68, 77, 88>>, <<118, 104, 101, 97>>,
        <<118, 109, 116, 120>>, <<66, 65, 83, 69>>, <<71, 68, 69, 70>>, <<71, 80, 79, 83>>,
        <<71, 83, 85, 66>>, <<69, 66, 83, 67>>, <<74, 83, 84, 70>>, <<77, 65, 84, 72>>,
        <<67, 66, 68, 84>>, <<67, 66, 76, 67>>, <<67, 79, 76, 82>>, <<67, 80, 65, 76>>,
        <<83, 86, 71, 32>>, <<115, 98, 105, 120>>, <<97, 99, 110, 116>>, <<97, 118, 97, 114>>,
        <<98, 100, 97, 116>>, <<98, 108, 111, 99>>, <<98, 115, 108, 110>>, <<99, 118, 97, 114>>,
        <<102, 100, 115, 99>>, <<102, 101, 97, 116>>, <<102, 109, 116, 120>>, <<102, 118, 97, 114>>,
        <<103, 118, 97, 114>>, <<104, 115, 116, 121>>, <<106, 117, 115, 116>>, <<108, 99, 97, 114>>,
        <<109, 111, 114, 116>>, <<109, 111, 114, 120>>, <<111, 112, 98, 100>>, <<112, 114, 111, 112>>,
        <<116, 114, 97, 107>>, <<90, 97, 112, 102>>, <<83, 105, 108, 102>>, <<71, 108, 97, 116>>,
        <<71, 108, 111, 99>>, <<70, 101, 97, 116>>, <<83, 105, 108, 108>>
    >>

\* Option<u32>::None (Some(v) is the u32 v)
None == <<>>

NoEntry == [transformed |-> FALSE, tag |-> <<0, 0, 0, 0>>, orig_length |-> <<0, 0>>,
            transform_length |-> None]

\* PartialTableDirectoryEntry::from_buf, the tag: the known tag of a table_ref
\* below 63, or the FourCC that follows
table_tag_of(table_ref, c) ==
    IF table_ref = 63 THEN try_get_four_cc(c) ELSE Ok(KNOWN_TABLE_TAGS[table_ref + 1], c)

\* the error of a length that did not parse
numeric_error(e) == IF e = "Truncated" THEN "Truncated" ELSE "InvalidNumeric"

\* the version bits read as for glyf whatever the tag
is_null_transform_of_glyf_only(tag, flags) ==
    IF tag = GLYF_TAG
    THEN (flags \div 64) * 64 = 192
    ELSE (flags \div 64) * 64 = 0

\* whether the version bits of the flags byte mean the null transform
is_null_transform(tag, flags) ==
    IF tag = GLYF_TAG \/ tag = LOCA_TAG
    THEN (flags \div 64) * 64 = 192
    ELSE (flags \div 64) * 64 = 0

\* PartialTableDirectoryEntry::from_buf, the entry once origLength (o) and
\* transformLength (l) are read
entry_of_lengths(flags, tag, o, l) ==
    IF l.err # "" THEN [err |-> numeric_error(l.err), val |-> NoEntry, cur |-> l.cur]
    ELSE [err |-> "",
          val |-> [transformed |-> ~is_null_transform(tag, flags), tag |-> tag,
                   orig_length |-> o.val, transform_length |-> l.val],
          cur |-> l.cur]

\* PartialTableDirectoryEntry::from_buf after origLength (o) is read
entry_after_orig_length(flags, tag, o) ==
    IF o.err # "" THEN [err |-> numeric_error(o.err), val |-> NoEntry, cur |-> o.cur]
    ELSE entry_of_lengths(flags, tag, o,
             IF is_null_transform(tag, flags) THEN Ok(None, o.cur)
             ELSE try_get_base_128(o.cur))

\* PartialTableDirectoryEntry::from_buf after the flags byte and the tag (t)
entry_after_flags(flags, t) ==
    IF t.err # "" THEN [err |-> "Truncated", val |-> NoEntry, cur |-> t.cur]
    ELSE entry_after_orig_length(flags, t.val, try_get_base_128(t.cur))

\* PartialTableDirectoryEntry::from_buf: [err, val, cur].  Errors are already
\* TableDirectoryError's.
PartialTableDirectoryEntry_from_buf(c) ==
    Let(try_get_u8(c), LAMBDA f :
        IF f.err # "" THEN [err |-> "Truncated", val |-> NoEntry, cur |-> f.cur]
        ELSE entry_after_flags(f.val, table_tag_of(f.val % 64, f.cur)))

\* the body of the loop of Woff2TableDirectory::from_buf: the complete entry
\* built from a parsed entry at running offset src_offset
complete_entry(entry, src_offset) ==
    [transformed |-> entry.transformed,
     tag |-> entry.tag,
     dest_length |-> entry.orig_length,
     src_length |-> IF entry.transform_length = None THEN entry.orig_length
                    ELSE entry.transform_length,
     src_offset |-> src_offset]

\* TableDirectoryError's Display
TableDirectoryError_to_string(e) ==
    IF e = "Truncated" THEN "Table Directory truncated" ELSE "Invalid numeric value"

(***************************************************************************)
(* Arithmetic whose overflow the build decides: with overflow checks (a    *)
(* debug build) the operation panics, without them (a release build) it    *)
(* wraps.  Each operator returns [panic, val].                             *)
(***************************************************************************)
\* a - b in u16
sub_u16(a, b, overflow_checks) ==
    IF a - b < 0 THEN [panic |-> overflow_checks, val |-> a - b + 65536]
    ELSE [panic |-> FALSE, val |-> a - b]

\* a + b in u32, the u32's being pairs <<hi, lo>>
add_u32(a, b, overflow_checks) ==
    IF a[1] + b[1] + ((a[2] + b[2]) \div 65536) > 65535
    THEN [panic |-> overflow_checks, val |-> wrapping_add(a, b)]
    ELSE [panic |-> FALSE, val |-> wrapping_add(a, b)]

\* a + b in u16
add_u16(a, b, overflow_checks) ==
    IF a + b > 65535 THEN [panic |-> overflow_checks, val |-> a + b - 65536]
    ELSE [panic |-> FALSE, val |-> a + b]

RECURSIVE Pow2(_)
Pow2(n) == IF n = 0 THEN 1 ELSE 2 * Pow2(n - 1)

\* 1u16 << s: a shift amount of 16 or more is an overflow; unchecked, the
\* amount is taken modulo 16
shl_one_u16(s, overflow_checks) ==
    IF s >= 16 THEN [panic |-> overflow_checks, val |-> Pow2(s % 16)]
    ELSE [panic |-> FALSE, val |-> Pow2(s)]

RECURSIVE BitLength(_)
BitLength(n) == IF n = 0 THEN 0 ELSE 1 + BitLength(n \div 2)

\* u16::leading_zeros
leading_zeros_u16(n) == 16 - BitLength(n)

(***************************************************************************)
(* ttf_header.rs                                                           *)
(***************************************************************************)
\* size_of::<TableRecord>()
TABLE_RECORD_SIZE == 16

calculate_header_size(num_tables) == 12 + TABLE_RECORD_SIZE * num_tables

\* struct TableRecord
TableRecord(tag, checksum, offset, length) ==
    [tag |-> tag, checksum |-> checksum, offset |-> offset, length |-> length]

\* TableRecord::write_to_buf
TableRecord_write_to_buf(t) ==
    t.tag \o u32_to_be_bytes(t.checksum) \o put_u32(t.offset) \o put_u32(t.length)

\* TableRecord::get_range: the pair <<start, end>>
get_range(t) == <<t.offset, t.offset + t.length>>

\* s without its i-th element
RemoveAt(s, i) == SubSeq(s, 1, i - 1) \o SubSeq(s, i + 1, Len(s))

RECURSIVE PermutationsOf(_)
PermutationsOf(s) ==
    IF s = <<>> THEN {<<>>}
    ELSE UNION {{<<s[i]>> \o p : p \in PermutationsOf(RemoveAt(s, i))} : i \in 1..Len(s)}

\* records in ascending order of tag
IsSortedByTag(recs) == \A i \in 1..(Len(recs) - 1) : TagLeq(recs[i].tag, recs[i + 1].tag)

\* TableDirectory::new without its sort: the records in the order given
sort_unstable_by_key_omitted(table_records) == {table_records}

\* slice::sort_unstable_by_key(|t| t.tag.0): the possible results.  The order
\* of records with equal tags is not specified.
sort_unstable_by_key(table_records) ==
    {p \in PermutationsOf(table_records) : IsSortedByTag(p)}

\* TableDirectory::new on already sorted records: [panic, ...the directory]
TableDirectory_fields(sfnt_version, sorted_records, overflow_checks) ==
    LET num_tables == Len(sorted_records)
        entry_selector == sub_u16(15, leading_zeros_u16(num_tables), overflow_checks)
        shift == add_u16(entry_selector.val, 4, overflow_checks)
        search_range == shl_one_u16(shift.val, overflow_checks)
        range_shift == sub_u16((num_tables * 16) % 65536, search_range.val, overflow_checks)
    IN  [panic |-> Len(sorted_records) > 65535 \/ entry_selector.panic \/ shift.panic
                   \/ search_range.panic \/ range_shift.panic,
         sfnt_version |-> sfnt_version,
         num_tables |-> num_tables,
         search_range |-> search_range.val,
         entry_selector |-> entry_selector.val,
         range_shift |-> range_shift.val,
         table_records |-> sorted_records]

\* TableDirectory::new: the possible directories
TableDirectory_new(sfnt_version, table_records, overflow_checks) ==
    {TableDirectory_fields(sfnt_version, s, overflow_checks) :
        s \in sort_unstable_by_key(table_records)}

RECURSIVE ConcatAll(_)
ConcatAll(ss) == IF ss = <<>> THEN <<>> ELSE Head(ss) \o ConcatAll(Tail(ss))

\* TableDirectory::write_to_buf: the bytes put into the buffer
TableDirectory_write_to_buf(dir) ==
    dir.sfnt_version \o put_u16(dir.num_tables) \o put_u16(dir.search_range)
    \o put_u16(dir.entry_selector) \o put_u16(dir.range_shift)
    \o ConcatAll([i \in 1..Len(dir.table_records) |->
                     TableRecord_write_to_buf(dir.table_records[i])])

\* TableDirectory::find_table: the indices a binary search for the tag may
\* return (none: the tag is absent)
find_table(dir, table_tag) ==
    {i \in 1..Len(dir.table_records) : dir.table_records[i].tag = table_tag}

(***************************************************************************)
(* woff2/collection_directory.rs                                           *)
(***************************************************************************)
COLLECTION_V1 == 65536      \* 0x0001_0000
COLLECTION_V2 == 131072     \* 0x0002_0000

NoCollection == [version |-> 0, fonts |-> <<>>]

RECURSIVE read_table_indices_one_past(_, _, _, _)
\* the inner map with table_idx > total_num_tables for the test
read_table_indices_one_past(c, n, total_num_tables, acc) ==
    IF n = 0 THEN Ok(acc, c)
    ELSE Let(try_get_255_u16(c), LAMBDA r :
             IF r.err # "" THEN Err("Truncated collection header", r.cur)
             ELSE IF r.val > total_num_tables THEN Err("Invalid table index", r.cur)
             ELSE read_table_indices_one_past(r.cur, n - 1, total_num_tables, Append(acc, r.val)))

RECURSIVE read_table_indices(_, _, _, _)
\* the inner map of CollectionHeader::from_buf: n more indices after acc
read_table_indices(c, n, total_num_tables, acc) ==
    IF n = 0 THEN Ok(acc, c)
    ELSE Let(try_get_255_u16(c), LAMBDA r :
             IF r.err # "" THEN Err("Truncated collection header", r.cur)
             ELSE IF r.val >= total_num_tables THEN Err("Invalid table index", r.cur)
             ELSE read_table_indices(r.cur, n - 1, total_num_tables, Append(acc, r.val)))

RECURSIVE read_fonts(_, _, _, _)
\* the outer map of CollectionHeader::from_buf: n more fonts after acc
read_fonts(c, n, total_num_tables, acc) ==
    IF n = 0 THEN Ok(acc, c)
    ELSE Let(try_get_255_u16(c), LAMBDA num_tables :
         IF num_tables.err # "" THEN Err("Truncated collection header", num_tables.cur)
         ELSE IF num_tables.val = 0 THEN Err("No tables in font", num_tables.cur)
         ELSE Let(try_get_four_cc(num_tables.cur), LAMBDA flavor :
              IF flavor.err # "" THEN Err("Truncated collection header", flavor.cur)
              ELSE Let(read_table_indices(flavor.cur, num_tables.val, total_num_tables, <<>>),
                       LAMBDA idx :
                   IF idx.err # "" THEN idx
                   ELSE read_fonts(idx.cur, n - 1, total_num_tables,
                            Append(acc, [flavor |-> flavor.val,
                                         table_indices |-> idx.val])))))

\* CollectionHeader::from_buf: [err, val, cur], err already the Display text
CollectionHeader_from_buf(c, total_num_tables) ==
    Let(try_get_u32(c), LAMBDA version :
    IF version.err # "" THEN Err("Truncated collection header", version.cur)
    ELSE IF version.val \notin {COLLECTION_V1, COLLECTION_V2}
    THEN Err("Invalid collection header version", version.cur)
    ELSE Let(try_get_255_u16(version.cur), LAMBDA num_fonts :
         IF num_fonts.err # "" THEN Err("Truncated collection header", num_fonts.cur)
         ELSE Let(read_fonts(num_fonts.cur, num_fonts.val, total_num_tables, <<>>),
                  LAMBDA fonts :
              IF fonts.err # "" THEN fonts
              ELSE Ok([version |-> version.val, fonts |-> fonts.val], fonts.cur))))

\* CollectionFontEntry::calculate_directory_size
calculate_directory_size(font) == 12 + Len(font.table_indices) * TABLE_RECORD_SIZE

RECURSIVE SumDirectorySizes(_, _)
\* the sum of calculate_directory_size over the first n fonts
SumDirectorySizes(fonts, n) ==
    IF n = 0 THEN 0
    ELSE SumDirectorySizes(fonts, n - 1) + calculate_directory_size(fonts[n])

\* CollectionHeader::calculate_header_size
CollectionHeader_calculate_header_size(coll) ==
    12 + 4 * Len(coll.fonts) + SumDirectorySizes(coll.fonts, Len(coll.fonts))

RECURSIVE FontDirectories_by_position(_, _, _)
\* the loop that takes the first records of the file for every font, not
\* the records its table indices name
FontDirectories_by_position(fonts, tables, overflow_checks) ==
    IF fonts = <<>> THEN {[panic |-> FALSE, bytes |-> <<>>]}
    ELSE LET font == Head(fonts)
             font_tables == [i \in 1..Len(font.table_indices) |-> tables[i]]
         IN  {[panic |-> d.panic \/ rest.panic,
               bytes |-> TableDirectory_write_to_buf(d) \o rest.bytes] :
                 d \in TableDirectory_new(font.flavor, font_tables, overflow_checks),
                 rest \in FontDirectories_by_position(Tail(fonts), tables, overflow_checks)}

RECURSIVE FontDirectories(_, _, _)
\* the second loop of CollectionHeader::write_to_buf: the possible outputs
\* [panic, bytes] of writing the table directories of the fonts
FontDirectories(fonts, tables, overflow_checks) ==
    IF fonts = <<>> THEN {[panic |-> FALSE, bytes |-> <<>>]}
    ELSE LET font == Head(fonts)
             font_tables == [i \in 1..Len(font.table_indices) |->
                                tables[font.table_indices[i] + 1]]
         IN  {[panic |-> d.panic \/ rest.panic,
               bytes |-> TableDirectory_write_to_buf(d) \o rest.bytes] :
                 d \in TableDirectory_new(font.flavor, font_tables, overflow_checks),
                 rest \in FontDirectories(Tail(fonts), tables, overflow_checks)}

\* CollectionHeader::write_to_buf that writes the version of the input
CollectionHeader_write_to_buf_input_version(coll, tables, overflow_checks) ==
    LET num_fonts == Len(coll.fonts)
        offsets == ConcatAll([i \in 1..num_fonts |->
                       put_u32(12 + 4 * num_fonts + SumDirectorySizes(coll.fonts, i - 1))])
    IN  {[panic |-> ds.panic,
          bytes |-> TTF_COLLECTION_FLAVOR \o put_u32(coll.version) \o put_u32(num_fonts)
                    \o offsets \o ds.bytes] :
            ds \in FontDirectories(coll.fonts, tables, overflow_checks)}

\* CollectionHeader::write_to_buf: the possible outputs [panic, bytes]
CollectionHeader_write_to_buf(coll, tables, overflow_checks) ==
    LET num_fonts == Len(coll.fonts)
        offsets == ConcatAll([i \in 1..num_fonts |->
                       put_u32(12 + 4 * num_fonts + SumDirectorySizes(coll.fonts, i - 1))])
    IN  {[panic |-> ds.panic,
          bytes |-> TTF_COLLECTION_FLAVOR \o put_u32(COLLECTION_V1) \o put_u32(num_fonts)
                    \o offsets \o ds.bytes] :
            ds \in FontDirectories(coll.fonts, tables, overflow_checks)}

\* the indices of a font in ascending order of the tag of the record each
\* names: sort_unstable_by_key(|&idx| ttf_tables[idx as usize].tag.0)
sort_indices_by_tag(table_indices, ttf_tables) ==
    {p \in PermutationsOf(table_indices) :
        \A i \in 1..(Len(p) - 1) : TagLeq(ttf_tables[p[i] + 1].tag, ttf_tables[p[i + 1] + 1].tag)}

RECURSIVE sort_fonts(_, _)
\* decode.rs, the loop "sort tables for each font": the possible results
sort_fonts(fonts, ttf_tables) ==
    IF fonts = <<>> THEN {<<>>}
    ELSE {<<[Head(fonts) EXCEPT !.table_indices = p]>> \o rest :
             p \in sort_indices_by_tag(Head(fonts).table_indices, ttf_tables),
             rest \in sort_fonts(Tail(fonts), ttf_tables)}

(***************************************************************************)
(* glyf_decoder/x_y_triplet.rs                                             *)
(***************************************************************************)
\* [byte_count, x_bits, y_bits, delta_x, delta_y, x_is_negative, y_is_negative]
COORD_LUT_ROWS ==
    <<
        <<1, 0, 8, 0, 0, FALSE, TRUE>>,
        <<1, 0, 8, 0, 0, FALSE, FALSE>>,
        <<1, 0, 8, 0, 256, FALSE, TRUE>>,
        <<1, 0, 8, 0, 256, FALSE, FALSE>>,
        <<1, 0, 8, 0, 512, FALSE, TRUE>>,
        <<1, 0, 8, 0, 512, FALSE, FALSE>>,
        <<1, 0, 8, 0, 768, FALSE, TRUE>>,
        <<1, 0, 8, 0, 768, FALSE, FALSE>>,
        <<1, 0, 8, 0, 1024, FALSE, TRUE>>,
        <<1, 0, 8, 0, 1024, FALSE, FALSE>>,
        <<1, 8, 0, 0, 0, TRUE, FALSE>>,
        <<1, 8, 0, 0, 0, FALSE, FALSE>>,
        <<1, 8, 0, 256, 0, TRUE, FALSE>>,
        <<1, 8, 0, 256, 0, FALSE, FALSE>>,
        <<1, 8, 0, 512, 0, TRUE, FALSE>>,
        <<1, 8, 0, 512, 0, FALSE, FALSE>>,
        <<1, 8, 0, 768, 0, TRUE, FALSE>>,
        <<1, 8, 0, 768, 0, FALSE, FALSE>>,
        <<1, 8, 0, 1024, 0, TRUE, FALSE>>,
        <<1, 8, 0, 1024, 0, FALSE, FALSE>>,
        <<1, 4, 4, 1, 1, TRUE, TRUE>>,
        <<1, 4, 4, 1, 1, FALSE, TRUE>>,
        <<1, 4, 4, 1, 1, TRUE, FALSE>>,
        <<1, 4, 4, 1, 1, FALSE, FALSE>>,
        <<1, 4, 4, 1, 17, TRUE, TRUE>>,
        <<1, 4, 4, 1, 17, FALSE, TRUE>>,
        <<1, 4, 4, 1, 17, TRUE, FALSE>>,
        <<1, 4, 4, 1, 17, FALSE, FALSE>>,
        <<1, 4, 4, 1, 33, TRUE, TRUE>>,
        <<1, 4, 4, 1, 33, FALSE, TRUE>>,
        <<1, 4, 4, 1, 33, TRUE, FALSE>>,
        <<1, 4, 4, 1, 33, FALSE, FALSE>>,
        <<1, 4, 4, 1, 49, TRUE, TRUE>>,
        <<1, 4, 4, 1, 49, FALSE, TRUE>>,
        <<1, 4, 4, 1, 49, TRUE, FALSE>>,
        <<1, 4, 4, 1, 49, FALSE, FALSE>>,
        <<1, 4, 4, 17, 1, TRUE, TRUE>>,
        <<1, 4, 4, 17, 1, FALSE, TRUE>>,
        <<1, 4, 4, 17, 1, TRUE, FALSE>>,
        <<1, 4, 4, 17, 1, FALSE, FALSE>>,
        <<1, 4, 4, 17, 17, TRUE, TRUE>>,
        <<1, 4, 4, 17, 17, FALSE, TRUE>>,
        <<1, 4, 4, 17, 17, TRUE, FALSE>>,
        <<1, 4, 4, 17, 17, FALSE, FALSE>>,
        <<1, 4, 4, 17, 33, TRUE, TRUE>>,
        <<1, 4, 4, 17, 33, FALSE, TRUE>>,
        <<1, 4, 4, 17, 33, TRUE, FALSE>>,
        <<1, 4, 4, 17, 33, FALSE, FALSE>>,
        <<1, 4, 4, 17, 49, TRUE, TRUE>>,
        <<1, 4, 4, 17, 49, FALSE, TRUE>>,
        <<1, 4, 4, 17, 49, TRUE, FALSE>>,
        <<1, 4, 4, 17, 49, FALSE, FALSE>>,
        <<1, 4, 4, 33, 1, TRUE, TRUE>>,
        <<1, 4, 4, 33, 1, FALSE, TRUE>>,
        <<1, 4, 4, 33, 1, TRUE, FALSE>>,
        <<1, 4, 4, 33, 1, FALSE, FALSE>>,
        <<1, 4, 4, 33, 17, TRUE, TRUE>>,
        <<1, 4, 4, 33, 17, FALSE, TRUE>>,
        <<1, 4, 4, 33, 17, TRUE, FALSE>>,
        <<1, 4, 4, 33, 17, FALSE, FALSE>>,
        <<1, 4, 4, 33, 33, TRUE, TRUE>>,
        <<1, 4, 4, 33, 33, FALSE, TRUE>>,
        <<1, 4, 4, 33, 33, TRUE, FALSE>>,
        <<1, 4, 4, 33, 33, FALSE, FALSE>>,
        <<1, 4, 4, 33, 49, TRUE, TRUE>>,
        <<1, 4, 4, 33, 49, FALSE, TRUE>>,
        <<1, 4, 4, 33, 49, TRUE, FALSE>>,
        <<1, 4, 4, 33, 49, FALSE, FALSE>>,
        <<1, 4, 4, 49, 1, TRUE, TRUE>>,
        <<1, 4, 4, 49, 1, FALSE, TRUE>>,
        <<1, 4, 4, 49, 1, TRUE, FALSE>>,
        <<1, 4, 4, 49, 1, FALSE, FALSE>>,
        <<1, 4, 4, 49, 17, TRUE, TRUE>>,
        <<1, 4, 4, 49, 17, FALSE, TRUE>>,
        <<1, 4, 4, 49, 17, TRUE, FALSE>>,
        <<1, 4, 4, 49, 17, FALSE, FALSE>>,
        <<1, 4, 4, 49, 33, TRUE, TRUE>>,
        <<1, 4, 4, 49, 33, FALSE, TRUE>>,
        <<1, 4, 4, 49, 33, TRUE, FALSE>>,
        <<1, 4, 4, 49, 33, FALSE, FALSE>>,
        <<1, 4, 4, 49, 49, TRUE, TRUE>>,
        <<1, 4, 4, 49, 49, FALSE, TRUE>>,
        <<1, 4, 4, 49, 49, TRUE, FALSE>>,
        <<1, 4, 4, 49, 49, FALSE, FALSE>>,
        <<2, 8, 8, 1, 1, TRUE, TRUE>>,
        <<2, 8, 8, 1, 1, FALSE, TRUE>>,
        <<2, 8, 8, 1, 1, TRUE, FALSE>>,
        <<2, 8, 8, 1, 1, FALSE, FALSE>>,
        <<2, 8, 8, 1, 257, TRUE, TRUE>>,
        <<2, 8, 8, 1, 257, FALSE, TRUE>>,
        <<2, 8, 8, 1, 257, TRUE, FALSE>>,
        <<2, 8, 8, 1, 257, FALSE, FALSE>>,
        <<2, 8, 8, 1, 513, TRUE, TRUE>>,
        <<2, 8, 8, 1, 513, FALSE, TRUE>>,
        <<2, 8, 8, 1, 513, TRUE, FALSE>>,
        <<2, 8, 8, 1, 513, FALSE, FALSE>>,
        <<2, 8, 8, 257, 1, TRUE, TRUE>>,
        <<2, 8, 8, 257, 1, FALSE, TRUE>>,
        <<2, 8, 8, 257, 1, TRUE, FALSE>>,
        <<2, 8, 8, 257, 1, FALSE, FALSE>>,
        <<2, 8, 8, 257, 257, TRUE, TRUE>>,
        <<2, 8, 8, 257, 257, FALSE, TRUE>>,
        <<2, 8, 8, 257, 257, TRUE, FALSE>>,
        <<2, 8, 8, 257, 257, FALSE, FALSE>>,
        <<2, 8, 8, 257, 513, TRUE, TRUE>>,
        <<2, 8, 8, 257, 513, FALSE, TRUE>>,
        <<2, 8, 8, 257, 513, TRUE, FALSE>>,
        <<2, 8, 8, 257, 513, FALSE, FALSE>>,
        <<2, 8, 8, 513, 1, TRUE, TRUE>>,
        <<2, 8, 8, 513, 1, FALSE, TRUE>>,
        <<2, 8, 8, 513, 1, TRUE, FALSE>>,
        <<2, 8, 8, 513, 1, FALSE, FALSE>>,
        <<2, 8, 8, 513, 257, TRUE, TRUE>>,
        <<2, 8, 8, 513, 257, FALSE, TRUE>>,
        <<2, 8, 8, 513, 257, TRUE, FALSE>>,
        <<2, 8, 8, 513, 257, FALSE, FALSE>>,
        <<2, 8, 8, 513, 513, TRUE, TRUE>>,
        <<2, 8, 8, 513, 513, FALSE, TRUE>>,
        <<2, 8, 8, 513, 513, TRUE, FALSE>>,
        <<2, 8, 8, 513, 513, FALSE, FALSE>>,
        <<3, 12, 12, 0, 0, TRUE, TRUE>>,
        <<3, 12, 12, 0, 0, FALSE, TRUE>>,
        <<3, 12, 12, 0, 0, TRUE, FALSE>>,
        <<3, 12, 12, 0, 0, FALSE, FALSE>>,
        <<4, 16, 16, 0, 0, TRUE, TRUE>>,
        <<4, 16, 16, 0, 0, FALSE, TRUE>>,
        <<4, 16, 16, 0, 0, TRUE, FALSE>>,
        <<4, 16, 16, 0, 0, FALSE, FALSE>>
    >>

\* struct XYTriplet, from a row of the table
XYTriplet(r) ==
    [byte_count |-> r[1], x_bits |-> r[2], y_bits |-> r[3], delta_x |-> r[4],
     delta_y |-> r[5], x_is_negative |-> r[6], y_is_negative |-> r[7]]

\* COORD_LUT[i] (0-based) as an XYTriplet
COORD_LUT(i) == XYTriplet(COORD_LUT_ROWS[i + 1])

RECURSIVE BytesValue(_)
\* the big-endian value of at most three bytes
BytesValue(bytes) ==
    IF bytes = <<>> THEN 0
    ELSE BytesValue(SubSeq(bytes, 1, Len(bytes) - 1)) * 256 + bytes[Len(bytes)]

\* (data >> shift) & ((1 << nbits) - 1) for the big-endian bytes of data
\* (one to four of them), computed without leaving 31 bits
shift_and_mask(data, shift, nbits) ==
    IF shift >= 16
    THEN (BytesValue(SubSeq(data, 1, Len(data) - 2)) \div Pow2(shift - 16)) % Pow2(nbits)
    ELSE (BytesValue(SubSeq(data, IF Len(data) > 3 THEN Len(data) - 2 ELSE 1, Len(data)))
             \div Pow2(shift)) % Pow2(nbits)

\* v as i16 (an `as` cast wraps)
as_i16(v) == IF v % 65536 >= 32768 THEN (v % 65536) - 65536 ELSE v % 65536

\* -v in i16
neg_i16(v, overflow_checks) ==
    IF v = -32768 THEN [panic |-> overflow_checks, val |-> -32768]
    ELSE [panic |-> FALSE, val |-> -v]

\* a + b in i16
add_i16(a, b, overflow_checks) ==
    IF a + b > 32767 \/ a + b < -32768
    THEN [panic |-> overflow_checks, val |-> as_i16(a + b + 65536)]
    ELSE [panic |-> FALSE, val |-> a + b]

\* XYTriplet::dx: [panic, val]
triplet_dx(triplet, data, overflow_checks) ==
    LET shift == triplet.byte_count * 8 - triplet.x_bits
        dx == shift_and_mask(data, shift, triplet.x_bits) + triplet.delta_x
    IN  IF triplet.x_is_negative THEN neg_i16(as_i16(dx), overflow_checks)
        ELSE [panic |-> FALSE, val |-> as_i16(dx)]

\* XYTriplet::dy: [panic, val]
triplet_dy(triplet, data, overflow_checks) ==
    LET shift == triplet.byte_count * 8 - triplet.x_bits - triplet.y_bits
        dy == shift_and_mask(data, shift, triplet.y_bits) + triplet.delta_y
    IN  IF triplet.y_is_negative THEN neg_i16(as_i16(dy), overflow_checks)
        ELSE [panic |-> FALSE, val |-> as_i16(dy)]

(***************************************************************************)
(* glyf_decoder/mod.rs.  Errors are "Truncated", "CompositeGlyphWithoutBbox",*)
(* "ExtraData" (GlyfDecoderError) and "panic".                             *)
(***************************************************************************)
GLYF_HEADER_SIZE == 36

bit_stream_byte_length(bit_stream_bit_length) ==
    ((bit_stream_bit_length \div 32)
        + (IF bit_stream_bit_length % 32 # 0 THEN 1 ELSE 0)) * 4

\* BitSlice<u8, Msb0> indexing: bit i of the bytes, most significant first
bit_msb0(bytes, i) == (bytes[(i \div 8) + 1] \div Pow2(7 - (i % 8))) % 2 = 1

NoDecoder ==
    [num_glyphs |-> 0, index_format |-> 0,
     n_contour_stream |-> Cursor(<<>>), n_points_stream |-> Cursor(<<>>),
     flag_stream |-> Cursor(<<>>), glyph_stream |-> Cursor(<<>>),
     composite_stream |-> Cursor(<<>>), bbox_bitmap |-> <<>>,
     bbox_stream |-> Cursor(<<>>), instruction_stream |-> Cursor(<<>>),
     has_overlap_bitmap |-> FALSE, overlap_bitmap |-> <<>>]

\* Woff2GlyfDecoder::new: [err, val]
Woff2GlyfDecoder_new(transformed_glyf_table, overflow_checks) ==
    LET t == transformed_glyf_table
        table_buf == Cursor(t)
    IN  IF remaining(table_buf) < GLYF_HEADER_SIZE
        THEN [err |-> "Truncated", val |-> NoDecoder]
        ELSE
        LET u16at(o) == try_get_u16(advance(table_buf, o)).val
            u32at(o) == try_get_u32(advance(table_buf, o)).val
            option_flags == u16at(2)
            num_glyphs == u16at(4)
            bitmap_stream_length == bit_stream_byte_length(num_glyphs)
            index_format == u16at(6)
            n_contour_stream_size == u32at(8)
            n_points_stream_size == u32at(12)
            flag_stream_size == u32at(16)
            glyph_stream_size == u32at(20)
            composite_stream_size == u32at(24)
            bbox_bitmap_size == bitmap_stream_length
            bbox_stream_size_total == u32at(28)
            bbox_stream_size == bbox_stream_size_total - bbox_bitmap_size
            instruction_stream_size == u32at(32)
            has_overlap_bit_stream == option_flags % 2 = 1
            overlap_simple_bit_stream_size ==
                IF has_overlap_bit_stream THEN bit_stream_byte_length(num_glyphs) ELSE 0
            n_contour_stream_start == GLYF_HEADER_SIZE
            n_points_stream_start == n_contour_stream_start + n_contour_stream_size
            flag_stream_start == n_points_stream_start + n_points_stream_size
            glyph_stream_start == flag_stream_start + flag_stream_size
            composite_stream_start == glyph_stream_start + glyph_stream_size
            bbox_bitmap_start == composite_stream_start + composite_stream_size
            bbox_stream_start == bbox_bitmap_start + bbox_bitmap_size
            instruction_stream_start == bbox_stream_start + bbox_stream_size
            overlap_bit_stream_start == instruction_stream_start + instruction_stream_size
            overlap_bit_stream_end == overlap_bit_stream_start + overlap_simple_bit_stream_size
        IN  \* get_u32() - bbox_bitmap_size as u32 underflows: a panic with overflow
            \* checks; without, the size wraps to more than 2^32 - 8192, so that
            \* (usize being 64 bits) the end lies past any table
            IF bbox_stream_size < 0
            THEN [err |-> IF overflow_checks THEN "panic" ELSE "Truncated", val |-> NoDecoder]
            ELSE IF Len(t) < overlap_bit_stream_end
            THEN [err |-> "Truncated", val |-> NoDecoder]
            ELSE [err |-> "",
                  val |-> [num_glyphs |-> num_glyphs,
                           index_format |-> index_format,
                           n_contour_stream |->
                               Cursor(Slice(t, n_contour_stream_start, n_points_stream_start)),
                           n_points_stream |->
                               Cursor(Slice(t, n_points_stream_start, flag_stream_start)),
                           flag_stream |-> Cursor(Slice(t, flag_stream_start, glyph_stream_start)),
                           glyph_stream |->
                               Cursor(Slice(t, glyph_stream_start, composite_stream_start)),
                           composite_stream |->
                               Cursor(Slice(t, composite_stream_start, bbox_bitmap_start)),
                           bbox_bitmap |-> Slice(t, bbox_bitmap_start, bbox_stream_start),
                           bbox_stream |->
                               Cursor(Slice(t, bbox_stream_start, instruction_stream_start)),
                           instruction_stream |->
                               Cursor(Slice(t, instruction_stream_start, overlap_bit_stream_start)),
                           has_overlap_bitmap |-> has_overlap_bit_stream,
                           overlap_bitmap |->
                               Slice(t, overlap_bit_stream_start, overlap_bit_stream_end)]]

\* has_read_all without the instruction stream
has_read_all_but_instructions(dec) ==
    /\ remaining(dec.n_contour_stream) = 0
    /\ remaining(dec.n_points_stream) = 0
    /\ remaining(dec.flag_stream) = 0
    /\ remaining(dec.glyph_stream) = 0
    /\ remaining(dec.composite_stream) = 0
    /\ remaining(dec.bbox_stream) = 0

\* Woff2GlyfDecoder::has_read_all
has_read_all(dec) ==
    /\ remaining(dec.n_contour_stream) = 0
    /\ remaining(dec.n_points_stream) = 0
    /\ remaining(dec.flag_stream) = 0
    /\ remaining(dec.glyph_stream) = 0
    /\ remaining(dec.composite_stream) = 0
    /\ remaining(dec.bbox_stream) = 0
    /\ remaining(dec.instruction_stream) = 0

\* the match with the arms 1..=256 and -256..=-1
encode_delta_one_more(d, short_vector_bit, is_same_bit) ==
    IF d = 0 THEN [bytes |-> <<>>, flags |-> is_same_bit]
    ELSE IF d >= 1 /\ d <= 256 THEN [bytes |-> <<d % 256>>, flags |-> short_vector_bit + is_same_bit]
    ELSE IF d >= -256 /\ d <= -1 THEN [bytes |-> <<(-d) % 256>>, flags |-> short_vector_bit]
    ELSE [bytes |-> put_i16(d), flags |-> 0]

\* the match on dx (or dy) of parse_simple_glyph: the coordinate bytes put
\* and the (short vector, is same) flag bits
encode_delta(d, short_vector_bit, is_same_bit) ==
    IF d = 0 THEN [bytes |-> <<>>, flags |-> is_same_bit]
    ELSE IF d >= 1 /\ d <= 255 THEN [bytes |-> <<d>>, flags |-> short_vector_bit + is_same_bit]
    ELSE IF d >= -255 /\ d <= -1 THEN [bytes |-> <<-d>>, flags |-> short_vector_bit]
    ELSE [bytes |-> put_i16(d), flags |-> 0]

Min(a, b) == IF a < b THEN a ELSE b

Max(a, b) == IF a > b THEN a ELSE b

\* the locals of parse_simple_glyph before the first contour
SimpleGlyphStart(dec) ==
    [err |-> "", dec |-> dec,
     end_points_of_contours_stream |-> <<>>, flags_stream |-> <<>>,
     x_coordinates_stream |-> <<>>, y_coordinates_stream |-> <<>>,
     running_total_points |-> 0,
     x_min |-> 0, y_min |-> 0, x_max |-> 0, y_max |-> 0, extents_set |-> FALSE,
     x |-> 0, y |-> 0]

\* the rest of an iteration over the points once dx and dy are known: the
\* running position, the extents and the three output streams
put_point(st, flags, dx, dy, overlap_simple_flag, overflow_checks) ==
    Let(add_i16(st.x, dx, overflow_checks), LAMBDA x_sum :
    Let(add_i16(st.y, dy, overflow_checks), LAMBDA y_sum :
        IF x_sum.panic \/ y_sum.panic THEN [st EXCEPT !.err = "panic"]
        ELSE [st EXCEPT
                !.x = x_sum.val,
                !.y = y_sum.val,
                !.x_min = IF st.extents_set THEN Min(st.x_min, x_sum.val) ELSE x_sum.val,
                !.y_min = IF st.extents_set THEN Min(st.y_min, y_sum.val) ELSE y_sum.val,
                !.x_max = IF st.extents_set THEN Max(st.x_max, x_sum.val) ELSE x_sum.val,
                !.y_max = IF st.extents_set THEN Max(st.y_max, y_sum.val) ELSE y_sum.val,
                !.extents_set = TRUE,
                !.x_coordinates_stream = @ \o encode_delta(dx, 2, 16).bytes,
                !.y_coordinates_stream = @ \o encode_delta(dy, 4, 32).bytes,
                !.flags_stream = Append(@, (IF flags \div 128 = 0 THEN 1 ELSE 0)
                                           + encode_delta(dx, 2, 16).flags
                                           + encode_delta(dy, 4, 32).flags
                                           + overlap_simple_flag)]))

\* the outcome of parsing one glyph: the error (or ""), the decoder's streams
\* and the output buffer
GlyphResult(err, dec, out) == [err |-> err, dec |-> dec, out |-> out]

\* one iteration of the loop over the points of a contour
point_step(st, overlap_simple_flag, overflow_checks) ==
    Let(try_get_u8(st.dec.flag_stream), LAMBDA flags :
        IF flags.err # "" THEN [st EXCEPT !.err = "Truncated"]
        ELSE Let(COORD_LUT(flags.val % 128), LAMBDA triplet :
             Let(try_copy_to_buf(st.dec.glyph_stream, triplet.byte_count), LAMBDA data :
                 IF data.err # "" THEN [st EXCEPT !.err = "Truncated"]
                 ELSE Let(triplet_dx(triplet, data.val, overflow_checks), LAMBDA dx :
                      Let(triplet_dy(triplet, data.val, overflow_checks), LAMBDA dy :
                          IF dx.panic \/ dy.panic THEN [st EXCEPT !.err = "panic"]
                          ELSE put_point([st EXCEPT !.dec.flag_stream = flags.cur,
                                                    !.dec.glyph_stream = data.cur],
                                         flags.val, dx.val, dy.val,
                                         overlap_simple_flag, overflow_checks))))))

RECURSIVE points_loop(_, _, _, _)
\* for _point_index in 0..number_of_points, n iterations left
points_loop(st, n, overlap_simple_flag, overflow_checks) ==
    IF n = 0 \/ st.err # "" THEN st
    ELSE points_loop(point_step(st, overlap_simple_flag, overflow_checks), n - 1,
                     overlap_simple_flag, overflow_checks)

\* one iteration of the loop over the contours
contour_step(st, overlap_simple_flag, overflow_checks) ==
    Let(try_get_255_u16(st.dec.n_points_stream), LAMBDA number_of_points :
        IF number_of_points.err # "" THEN [st EXCEPT !.err = "Truncated"]
        ELSE Let(add_u16(st.running_total_points, number_of_points.val, overflow_checks),
                 LAMBDA total :
             Let(sub_u16(total.val, 1, overflow_checks), LAMBDA end_point :
                 IF total.panic \/ end_point.panic THEN [st EXCEPT !.err = "panic"]
                 ELSE points_loop(
                          [st EXCEPT !.dec.n_points_stream = number_of_points.cur,
                                     !.running_total_points = total.val,
                                     !.end_points_of_contours_stream =
                                         @ \o put_u16(end_point.val)],
                          number_of_points.val, overlap_simple_flag, overflow_checks))))

RECURSIVE contours_loop(_, _, _, _)
\* for _contour_index in 0..number_of_contours, n iterations left
contours_loop(st, n, overlap_simple_flag, overflow_checks) ==
    IF n = 0 \/ st.err # "" THEN st
    ELSE contours_loop(contour_step(st, overlap_simple_flag, overflow_checks), n - 1,
                       overlap_simple_flag, overflow_checks)

RECURSIVE read_i16s(_, _, _)
\* n successive try_get_i16: val is the values read after acc
read_i16s(c, n, acc) ==
    IF n = 0 THEN Ok(acc, c)
    ELSE Let(try_get_i16(c), LAMBDA r :
             IF r.err # "" THEN Err("Truncated", r.cur)
             ELSE read_i16s(r.cur, n - 1, Append(acc, r.val)))

\* Woff2GlyfDecoder::parse_simple_glyph: [err, dec, out]
parse_simple_glyph(dec, number_of_contours, glyph_index, output_buffer, overflow_checks) ==
    Let(contours_loop(SimpleGlyphStart(dec), number_of_contours,
                      IF dec.has_overlap_bitmap /\ bit_msb0(dec.overlap_bitmap, glyph_index)
                      THEN 64 ELSE 0,
                      overflow_checks), LAMBDA st :
        IF st.err # "" THEN GlyphResult(st.err, dec, output_buffer)
        ELSE Let(try_get_255_u16(st.dec.glyph_stream), LAMBDA instruction_length :
             IF instruction_length.err # "" THEN GlyphResult("Truncated", dec, output_buffer)
             ELSE Let(try_copy_to_buf(st.dec.instruction_stream, instruction_length.val),
                      LAMBDA instructions :
                  IF instructions.err # "" THEN GlyphResult("Truncated", dec, output_buffer)
                  ELSE Let(IF bit_msb0(st.dec.bbox_bitmap, glyph_index)
                           THEN read_i16s(st.dec.bbox_stream, 4, <<>>)
                           ELSE Ok(<<st.x_min, st.y_min, st.x_max, st.y_max>>,
                                   st.dec.bbox_stream), LAMBDA bbox :
                       IF bbox.err # "" THEN GlyphResult("Truncated", dec, output_buffer)
                       ELSE GlyphResult("",
                                [st.dec EXCEPT !.glyph_stream = instruction_length.cur,
                                               !.instruction_stream = instructions.cur,
                                               !.bbox_stream = bbox.cur],
                                output_buffer
                                    \o put_i16(number_of_contours)
                                    \o put_i16(bbox.val[1]) \o put_i16(bbox.val[2])
                                    \o put_i16(bbox.val[3]) \o put_i16(bbox.val[4])
                                    \o st.end_points_of_contours_stream
                                    \o put_u16(instruction_length.val)
                                    \o instructions.val
                                    \o st.flags_stream
                                    \o st.x_coordinates_stream
                                    \o st.y_coordinates_stream)))))

\* flag_word & mask == mask for a one-bit mask
has_bit(flag_word, mask) == (flag_word \div mask) % 2 = 1

\* the three scale tests as independent ifs
component_num_bytes_no_else(flag_word) ==
    4 + (IF has_bit(flag_word, 1) THEN 2 ELSE 0)
      + (IF has_bit(flag_word, 8) THEN 2 ELSE 0)
      + (IF has_bit(flag_word, 64) THEN 4 ELSE 0)
      + (IF has_bit(flag_word, 128) THEN 8 ELSE 0)

\* the bytes copied from compositeStream after a component's flag word
component_num_bytes(flag_word) ==
    4 + (IF has_bit(flag_word, 1) THEN 2 ELSE 0)
      + (IF has_bit(flag_word, 8) THEN 2
         ELSE IF has_bit(flag_word, 64) THEN 4
         ELSE IF has_bit(flag_word, 128) THEN 8
         ELSE 0)

\* the outcome of the loop over the components
Components(err, composite_stream, out, have_instructions) ==
    [err |-> err, composite_stream |-> composite_stream, out |-> out,
     have_instructions |-> have_instructions]

RECURSIVE components_loop(_, _, _)
\* the loop over the components of a composite glyph:
\* [err, composite_stream, out, have_instructions]
components_loop(composite_stream, out, have_instructions) ==
    Let(try_get_u16(composite_stream), LAMBDA flag_word :
        IF flag_word.err # "" THEN Components("Truncated", composite_stream, out, have_instructions)
        ELSE Let(try_copy_to_buf(flag_word.cur, component_num_bytes(flag_word.val)),
                 LAMBDA args :
             IF args.err # ""
             THEN Components("Truncated", composite_stream, out, have_instructions)
             ELSE IF ~has_bit(flag_word.val, 32)
             THEN Components("", args.cur, out \o put_u16(flag_word.val) \o args.val,
                             have_instructions \/ has_bit(flag_word.val, 256))
             ELSE components_loop(args.cur, out \o put_u16(flag_word.val) \o args.val,
                                  have_instructions \/ has_bit(flag_word.val, 256))))

\* the end of parse_composite_glyph: the instructions, when a component
\* has announced them (dec1 and out are the streams and output after the
\* components)
composite_instructions(dec1, have_instructions, out, dec, output_buffer) ==
    IF ~have_instructions THEN GlyphResult("", dec1, out)
    ELSE Let(try_get_255_u16(dec1.glyph_stream), LAMBDA instruction_length :
         IF instruction_length.err # "" THEN GlyphResult("Truncated", dec, output_buffer)
         ELSE Let(try_copy_to_buf(dec1.instruction_stream, instruction_length.val),
                  LAMBDA instructions :
              IF instructions.err # "" THEN GlyphResult("Truncated", dec, output_buffer)
              ELSE GlyphResult("",
                       [dec1 EXCEPT !.glyph_stream = instruction_length.cur,
                                    !.instruction_stream = instructions.cur],
                       out \o put_u16(instruction_length.val) \o instructions.val)))

\* parse_composite_glyph that looks at the bbox bitmap only after it has
\* read the components from compositeStream
parse_composite_glyph_bbox_last(dec, glyph_index, output_buffer) ==
    Let(components_loop(dec.composite_stream, output_buffer \o put_i16(-1), FALSE),
        LAMBDA comps :
        IF comps.err # "" THEN GlyphResult(comps.err, dec, output_buffer)
        ELSE IF ~bit_msb0(dec.bbox_bitmap, glyph_index)
        THEN GlyphResult("CompositeGlyphWithoutBbox", dec, output_buffer)
        ELSE GlyphResult("", [dec EXCEPT !.composite_stream = comps.composite_stream],
                         comps.out))

\* Woff2GlyfDecoder::parse_composite_glyph: [err, dec, out]
parse_composite_glyph(dec, glyph_index, output_buffer) ==
    IF ~bit_msb0(dec.bbox_bitmap, glyph_index)
    THEN GlyphResult("CompositeGlyphWithoutBbox", dec, output_buffer)
    ELSE Let(read_i16s(dec.bbox_stream, 4, <<>>), LAMBDA bbox :
         IF bbox.err # "" THEN GlyphResult("Truncated", dec, output_buffer)
         ELSE Let(components_loop(dec.composite_stream,
                                  output_buffer \o put_i16(-1)
                                      \o put_i16(bbox.val[1]) \o put_i16(bbox.val[2])
                                      \o put_i16(bbox.val[3]) \o put_i16(bbox.val[4]),
                                  FALSE), LAMBDA comps :
              IF comps.err # "" THEN GlyphResult(comps.err, dec, output_buffer)
              ELSE composite_instructions(
                       [dec EXCEPT !.bbox_stream = bbox.cur,
                                   !.composite_stream = comps.composite_stream],
                       comps.have_instructions, comps.out, dec, output_buffer)))

\* Woff2GlyfDecoder::parse_next_glyph: [err, dec, out]
parse_next_glyph(dec, glyph_index, output_vector, overflow_checks) ==
    Let(try_get_i16(dec.n_contour_stream), LAMBDA number_of_contours :
        IF number_of_contours.err # "" THEN GlyphResult("Truncated", dec, output_vector)
        ELSE IF number_of_contours.val = 0
        THEN GlyphResult("", [dec EXCEPT !.n_contour_stream = number_of_contours.cur],
                         output_vector)
        ELSE IF number_of_contours.val > 0
        THEN parse_simple_glyph([dec EXCEPT !.n_contour_stream = number_of_contours.cur],
                                number_of_contours.val, glyph_index, output_vector,
                                overflow_checks)
        ELSE parse_composite_glyph([dec EXCEPT !.n_contour_stream = number_of_contours.cur],
                                   glyph_index, output_vector))

\* the loca entry recorded for the current length of the output glyf:
\* [panic, bytes] (the conversion to u16 is unwrapped)
loca_entry(loca_use_u32, glyf_len) ==
    IF loca_use_u32 THEN [panic |-> FALSE, bytes |-> put_u32(glyf_len)]
    ELSE [panic |-> glyf_len \div 2 > 65535, bytes |-> put_u16((glyf_len \div 2) % 65536)]

\* parse_all_glyphs before its loop: [err, dec, glyph_index, output_glyf_table,
\* output_loca_table]
parse_all_glyphs_start(dec, overflow_checks) ==
    [err |-> IF add_u16(dec.num_glyphs, 1, overflow_checks).panic THEN "panic" ELSE "",
     dec |-> dec, glyph_index |-> 0,
     output_glyf_table |-> <<>>, output_loca_table |-> <<>>]

\* the loop of parse_all_glyphs without pad_to_multiple_of_four
parse_all_glyphs_step_unpadded(g, overflow_checks) ==
    Let(loca_entry(g.dec.index_format > 0, Len(g.output_glyf_table)), LAMBDA entry :
        IF entry.panic THEN [g EXCEPT !.err = "panic"]
        ELSE Let(parse_next_glyph(g.dec, g.glyph_index, g.output_glyf_table, overflow_checks),
                 LAMBDA r :
             IF r.err # "" THEN [g EXCEPT !.err = r.err]
             ELSE [g EXCEPT !.dec = r.dec,
                            !.glyph_index = g.glyph_index + 1,
                            !.output_glyf_table = r.out,
                            !.output_loca_table = @ \o entry.bytes]))

\* one iteration of the loop of parse_all_glyphs
parse_all_glyphs_step(g, overflow_checks) ==
    Let(loca_entry(g.dec.index_format > 0, Len(g.output_glyf_table)), LAMBDA entry :
        IF entry.panic THEN [g EXCEPT !.err = "panic"]
        ELSE Let(parse_next_glyph(g.dec, g.glyph_index, g.output_glyf_table, overflow_checks),
                 LAMBDA r :
             IF r.err # "" THEN [g EXCEPT !.err = r.err]
             ELSE [g EXCEPT !.dec = r.dec,
                            !.glyph_index = g.glyph_index + 1,
                            !.output_glyf_table = pad_to_multiple_of_four(r.out),
                            !.output_loca_table = @ \o entry.bytes]))

\* the outcome of decode_glyf_table
GlyfTables(err, glyf, loca) == [err |-> err, glyf |-> glyf, loca |-> loca]

\* parse_all_glyphs after its loop, and the check of decode_glyf_table:
\* [err, glyf, loca]
decode_glyf_table_finish(g) ==
    Let(IF g.dec.index_format = 0 /\ Len(g.output_glyf_table) % 2 = 1
        THEN Append(g.output_glyf_table, 0)
        ELSE g.output_glyf_table, LAMBDA glyf :
        Let(loca_entry(g.dec.index_format > 0, Len(glyf)), LAMBDA entry :
            IF entry.panic THEN GlyfTables("panic", <<>>, <<>>)
            ELSE IF ~has_read_all(g.dec) THEN GlyfTables("ExtraData", <<>>, <<>>)
            ELSE GlyfTables("", glyf, g.output_loca_table \o entry.bytes)))

RECURSIVE parse_all_glyphs_loop(_, _)
parse_all_glyphs_loop(g, overflow_checks) ==
    IF g.err # "" \/ g.glyph_index = g.dec.num_glyphs THEN g
    ELSE parse_all_glyphs_loop(parse_all_glyphs_step(g, overflow_checks), overflow_checks)

\* decode_glyf_table: [err, glyf, loca]
decode_glyf_table(glyf_table, overflow_checks) ==
    Let(Woff2GlyfDecoder_new(glyf_table, overflow_checks), LAMBDA new :
        IF new.err # "" THEN GlyfTables(new.err, <<>>, <<>>)
        ELSE Let(parse_all_glyphs_loop(parse_all_glyphs_start(new.val, overflow_checks),
                                       overflow_checks), LAMBDA g :
             IF g.err # "" THEN GlyfTables(g.err, <<>>, <<>>)
             ELSE decode_glyf_table_finish(g)))

\* GlyfDecoderError's Display
GlyfDecoderError_to_string(e) ==
    CASE e = "Truncated" -> "Stream truncated"
      [] e = "CompositeGlyphWithoutBbox" -> "Composite glyph without bbox"
      [] e = "ExtraData" -> "Extra Data"

(***************************************************************************)
(* woff2/table_directory.rs: writing the tables                            *)
(***************************************************************************)
\* TableDirectoryEntry::get_source_range: the pair <<start, end>>
get_source_range(table) ==
    <<as_usize(table.src_offset), as_usize(table.src_offset) + as_usize(table.src_length)>>

\* whether &decompressed_tables[table.get_source_range()] is in bounds
\* (slicing out of bounds panics)
source_in_bounds(table, decompressed_tables) ==
    get_source_range(table)[2] <= Len(decompressed_tables)

source_slice(table, decompressed_tables) ==
    Slice(decompressed_tables, get_source_range(table)[1], get_source_range(table)[2])

\* push_simple_table_record: [panic, out_buffer, ttf_tables]
push_simple_table_record(table, decompressed_tables, out_buffer, ttf_tables) ==
    IF ~source_in_bounds(table, decompressed_tables)
    THEN [panic |-> TRUE, out_buffer |-> out_buffer, ttf_tables |-> ttf_tables]
    ELSE Let(source_slice(table, decompressed_tables), LAMBDA src :
             [panic |-> FALSE,
              out_buffer |-> pad_to_multiple_of_four(out_buffer \o src),
              ttf_tables |-> Append(ttf_tables,
                                 TableRecord(table.tag, calculate_checksum(src),
                                             Len(out_buffer), Len(src)))])

\* the result of one iteration of the loop of Woff2TableDirectory::write_to_buf
WriteStep(err, detail, iter, out_buffer, ttf_tables) ==
    [err |-> err, detail |-> detail, iter |-> iter, out_buffer |-> out_buffer,
     ttf_tables |-> ttf_tables]

\* the GLYF_TAG arm, for the transformed pair
write_transformed_glyf(table, next_table, iter, out_buffer, ttf_tables, decompressed_tables, overflow_checks) ==
    IF ~source_in_bounds(table, decompressed_tables)
    THEN WriteStep("panic", "", iter, out_buffer, ttf_tables)
    ELSE Let(decode_glyf_table(source_slice(table, decompressed_tables), overflow_checks),
             LAMBDA r :
         IF r.err = "panic" THEN WriteStep("panic", "", iter, out_buffer, ttf_tables)
         ELSE IF r.err # ""
         THEN WriteStep("GlyfDecoderError", r.err, iter, out_buffer, ttf_tables)
         ELSE Let(pad_to_multiple_of_four(out_buffer \o r.glyf), LAMBDA out1 :
                  WriteStep("", "", iter + 2, pad_to_multiple_of_four(out1 \o r.loca),
                      ttf_tables \o
                      <<TableRecord(table.tag, calculate_checksum(r.glyf),
                                    Len(out_buffer), Len(r.glyf)),
                        TableRecord(next_table.tag, calculate_checksum(r.loca),
                                    Len(out1), Len(r.loca))>>)))

\* the GLYF_TAG arm
write_glyf(tables, iter, out_buffer, ttf_tables, decompressed_tables, overflow_checks) ==
    IF iter + 1 >= Len(tables)
    THEN WriteStep("MissingLocaTable", "", iter, out_buffer, ttf_tables)
    ELSE IF tables[iter + 2].tag # LOCA_TAG
    THEN WriteStep("MissingLocaTable", "", iter, out_buffer, ttf_tables)
    ELSE IF tables[iter + 2].transformed # tables[iter + 1].transformed
    THEN WriteStep("GlyfLocaDifferentTransform", "", iter, out_buffer, ttf_tables)
    ELSE IF tables[iter + 1].transformed
    THEN write_transformed_glyf(tables[iter + 1], tables[iter + 2], iter, out_buffer,
                                ttf_tables, decompressed_tables, overflow_checks)
    ELSE Let(push_simple_table_record(tables[iter + 1], decompressed_tables, out_buffer,
                                      ttf_tables), LAMBDA p1 :
         IF p1.panic THEN WriteStep("panic", "", iter, out_buffer, ttf_tables)
         ELSE Let(push_simple_table_record(tables[iter + 2], decompressed_tables,
                                           p1.out_buffer, p1.ttf_tables), LAMBDA p2 :
              IF p2.panic THEN WriteStep("panic", "", iter, out_buffer, ttf_tables)
              ELSE WriteStep("", "", iter + 2, p2.out_buffer, p2.ttf_tables)))

\* the HEAD_TAG arm with the checksum of the source bytes
write_head_source_checksum(table, iter, out_buffer, ttf_tables, decompressed_tables) ==
    IF ~source_in_bounds(table, decompressed_tables)
    THEN WriteStep("panic", "", iter, out_buffer, ttf_tables)
    ELSE Let(set_checksum_adjustment(source_slice(table, decompressed_tables), <<0, 0>>),
             LAMBDA head_table :
         IF head_table.err # ""
         THEN WriteStep("TruncatedHeadTable", "", iter, out_buffer, ttf_tables)
         ELSE WriteStep("", "", iter + 1,
                  pad_to_multiple_of_four(out_buffer \o head_table.table),
                  Append(ttf_tables,
                         TableRecord(table.tag,
                                     calculate_checksum(source_slice(table, decompressed_tables)),
                                     Len(out_buffer), Len(head_table.table)))))

\* the HEAD_TAG arm
write_head(table, iter, out_buffer, ttf_tables, decompressed_tables) ==
    IF ~source_in_bounds(table, decompressed_tables)
    THEN WriteStep("panic", "", iter, out_buffer, ttf_tables)
    ELSE Let(set_checksum_adjustment(source_slice(table, decompressed_tables), <<0, 0>>),
             LAMBDA head_table :
         IF head_table.err # ""
         THEN WriteStep("TruncatedHeadTable", "", iter, out_buffer, ttf_tables)
         ELSE WriteStep("", "", iter + 1,
                  pad_to_multiple_of_four(out_buffer \o head_table.table),
                  Append(ttf_tables,
                         TableRecord(table.tag, calculate_checksum(head_table.table),
                                     Len(out_buffer), Len(head_table.table)))))

\* write_to_buf without its LOCA_TAG arm: a loca entry the iterator reaches
\* is copied like any other table
write_to_buf_step_loca_copied(tables, iter, out_buffer, ttf_tables, decompressed_tables, overflow_checks) ==
    IF tables[iter + 1].tag = GLYF_TAG
    THEN write_glyf(tables, iter, out_buffer, ttf_tables, decompressed_tables,
                    overflow_checks)
    ELSE IF tables[iter + 1].tag = HEAD_TAG
    THEN write_head(tables[iter + 1], iter, out_buffer, ttf_tables, decompressed_tables)
    ELSE IF tables[iter + 1].tag = HMTX_TAG /\ tables[iter + 1].transformed
    THEN WriteStep("Unsupported", "transformed hmtx table", iter, out_buffer, ttf_tables)
    ELSE Let(push_simple_table_record(tables[iter + 1], decompressed_tables, out_buffer,
                                      ttf_tables), LAMBDA p :
         IF p.panic THEN WriteStep("panic", "", iter, out_buffer, ttf_tables)
         ELSE WriteStep("", "", iter + 1, p.out_buffer, p.ttf_tables))

\* one iteration of the loop of Woff2TableDirectory::write_to_buf, the
\* iterator standing before tables[iter] (0-based)
write_to_buf_step(tables, iter, out_buffer, ttf_tables, decompressed_tables, overflow_checks) ==
    IF tables[iter + 1].tag = GLYF_TAG
    THEN write_glyf(tables, iter, out_buffer, ttf_tables, decompressed_tables,
                    overflow_checks)
    ELSE IF tables[iter + 1].tag = LOCA_TAG
    THEN WriteStep("MissingGlyfTable", "", iter, out_buffer, ttf_tables)
    ELSE IF tables[iter + 1].tag = HEAD_TAG
    THEN write_head(tables[iter + 1], iter, out_buffer, ttf_tables, decompressed_tables)
    ELSE IF tables[iter + 1].tag = HMTX_TAG /\ tables[iter + 1].transformed
    THEN WriteStep("Unsupported", "transformed hmtx table", iter, out_buffer, ttf_tables)
    ELSE Let(push_simple_table_record(tables[iter + 1], decompressed_tables, out_buffer,
                                      ttf_tables), LAMBDA p :
         IF p.panic THEN WriteStep("panic", "", iter, out_buffer, ttf_tables)
         ELSE WriteStep("", "", iter + 1, p.out_buffer, p.ttf_tables))

\* WriteTablesError's Display (the source quotes head with backquotes, which a
\* string here cannot hold; they are written as apostrophes)
WriteTablesError_to_string(err, detail) ==
    CASE err = "MissingLocaTable" -> "glyf table not followed by loca table"
      [] err = "MissingGlyfTable" -> "loca table not preceded by glyf table"
      [] err = "GlyfLocaDifferentTransform" ->
             "glyf table and loca table have different transformations"
      [] err = "TruncatedHeadTable" -> "Truncated 'head' table"
      [] err = "GlyfDecoderError" -> GlyfDecoderError_to_string(detail)

(***************************************************************************)
(* decode.rs: DecodeError and its conversions                              *)
(***************************************************************************)
NoResult == [kind |-> "None", reason |-> ""]

OkResult == [kind |-> "Ok", reason |-> ""]

Invalid(reason) == [kind |-> "Invalid", reason |-> reason]

Unsupported(reason) == [kind |-> "Unsupported", reason |-> reason]

\* a panic (an out-of-bounds slice, a failed assertion, an overflow with
\* overflow checks): the call does not return
Panic == [kind |-> "Panic", reason |-> ""]

\* the conversion without its Unsupported arm: every error becomes Invalid
DecodeError_from_WriteTablesError_all_invalid(err, detail) ==
    IF err = "Unsupported" THEN Invalid(detail)
    ELSE Invalid(WriteTablesError_to_string(err, detail))

\* impl From<WriteTablesError> for DecodeError
DecodeError_from_WriteTablesError(err, detail) ==
    IF err = "Unsupported" THEN Unsupported(detail)
    ELSE Invalid(WriteTablesError_to_string(err, detail))

(***************************************************************************)
(* The inputs of a call.  The input buffer is read front to back, so the   *)
(* model draws it piece by piece as the parsers reach it: the 48 header    *)
(* bytes (or fewer) with the call, each table directory entry and the      *)
(* collection directory when they are parsed.  Every piece is a byte       *)
(* string, parsed by the readers above.                                    *)
(***************************************************************************)
\* the 48 bytes of a WOFF2 header (length, total_sfnt_size, the versions and
\* the metadata and private blocks are not read by the decoder)
EncodeHeader(signature, flavor, num_tables, total_compressed_size) ==
    signature \o flavor \o put_u32(0) \o put_u16(num_tables) \o put_u16(0)
    \o put_u32(0) \o put_u32(total_compressed_size) \o put_u16(1) \o put_u16(0)
    \o Zeros(20)

\* "wOF2", and "wOFF" (a WOFF 1 file)
Signatures == {WOFF2_SIGNATURE, <<119, 79, 70, 70>>}

\* the three flavors the decoder accepts, and "true"
Flavors ==
    {TTF_COLLECTION_FLAVOR, TTF_TRUE_TYPE_FLAVOR, TTF_CFF_FLAVOR, <<116, 114, 117, 101>>}

\* the num_tables of the generated headers of a flavor (the decoder treats
\* "OTTO" like the TrueType flavor: the model gives it the short directories)
NumTablesOf(flavor) ==
    IF flavor = TTF_COLLECTION_FLAVOR THEN 0..MaxCollTables
    ELSE IF flavor = TTF_CFF_FLAVOR THEN 0..1
    ELSE 0..MaxTables

\* the total_compressed_size of the generated headers of num_tables tables:
\* every size for an empty directory, the largest for the others
CompressedSizesOf(num_tables) ==
    IF num_tables = 0 THEN 1..MaxCompressedSize ELSE {MaxCompressedSize}

\* the first 48 bytes of the input buffers of the model, and two buffers
\* that end before the header does
HeaderInputs ==
    UNION {UNION {{EncodeHeader(s, f, n, t) : t \in CompressedSizesOf(n)} :
                     n \in NumTablesOf(f)} :
              s \in Signatures, f \in Flavors}
    \cup {<<>>, SubSeq(EncodeHeader(WOFF2_SIGNATURE, TTF_TRUE_TYPE_FLAVOR, 1, 1), 1, 47)}

\* the five 7-bit groups of the u32 w = <<hi, lo>>, most significant first
Groups128(w) ==
    <<w[1] \div 4096, (w[1] \div 32) % 128, (w[1] % 32) * 4 + (w[2] \div 16384),
      (w[2] \div 128) % 128, w[2] % 128>>

\* UIntBase128 of the u32 w: its groups from the first that is not zero
\* (the last, for zero), every byte but the last with the top bit set
EncodeUIntBase128(w) ==
    LET g == Groups128(w)
        first == IF \E i \in 1..4 : g[i] # 0
                 THEN CHOOSE i \in 1..4 : g[i] # 0 /\ \A j \in 1..(i - 1) : g[j] = 0
                 ELSE 5
    IN  [k \in 1..(6 - first) |->
            IF k = 6 - first THEN g[5] ELSE 128 + g[first + k - 1]]

\* UIntBase128 of a natural below 2^31
EncodeBase128(n) == EncodeUIntBase128(u32_of(n))

\* a table directory entry: the flags byte, the tag when the flags say 63,
\* origLength and, when trans # -1, transformLength
EncodeEntry(flags, tag, orig, trans) ==
    <<flags>> \o tag \o EncodeBase128(orig)
    \o (IF trans = -1 THEN <<>> ELSE EncodeBase128(trans))

\* a transformed glyf table from its header fields and substreams
EncodeGlyfTable(option_flags, num_glyphs, index_format, n_contour, n_points, flag, glyph, composite, bbox_bitmap, bbox, instruction, overlap) ==
    put_u16(0) \o put_u16(option_flags) \o put_u16(num_glyphs) \o put_u16(index_format)
    \o put_u32(Len(n_contour)) \o put_u32(Len(n_points)) \o put_u32(Len(flag))
    \o put_u32(Len(glyph)) \o put_u32(Len(composite))
    \o put_u32(Len(bbox_bitmap) + Len(bbox)) \o put_u32(Len(instruction))
    \o n_contour \o n_points \o flag \o glyph \o composite \o bbox_bitmap \o bbox
    \o instruction \o overlap

RECURSIVE BitmapByte(_, _)
\* the byte whose bits, most significant first, are bits[1..n]
BitmapByte(bits, n) ==
    IF n = 0 THEN 0
    ELSE BitmapByte(bits, n - 1) + (IF bits[n] THEN Pow2(8 - n) ELSE 0)

\* a transformed glyf table of Len(kinds) glyphs (at most 8): kinds[i] is the
\* nContours of glyph i (0 an empty glyph, 1 a simple glyph of one contour of
\* one point, -1 a composite glyph), bits[i] its bit in the bbox bitmap
GlyfTableOf(kinds, bits, index_format, composite, bbox) ==
    LET n == Len(kinds)
        simple == {i \in 1..n : kinds[i] > 0}
        per_simple(bytes) == ConcatAll([i \in 1..n |-> IF i \in simple THEN bytes ELSE <<>>])
    IN  EncodeGlyfTable(0, n, index_format,
            ConcatAll([i \in 1..n |-> put_i16(kinds[i])]),
            per_simple(<<1>>),
            per_simple(<<0>>),
            per_simple(<<5, 0>>),
            composite,
            <<BitmapByte(bits, n), 0, 0, 0>>,
            bbox,
            <<>>, <<>>)

\* one component of a composite glyph: flags 0 (no more components), the
\* glyph index and two one-byte arguments
OneComponent == <<0, 0, 0, 1, 2, 3>>

\* an explicit bounding box
OneBbox == <<0, 1, 0, 2, 0, 3, 0, 4>>

\* the transformed glyf tables the Brotli stream of the model holds: two
\* glyphs, the second composite with (seed 1) or without (seed 2) a
\* bounding box
GlyfSample(seed) == GlyfTableOf(<<0, -1>>, <<FALSE, seed = 1>>, 0, OneComponent, OneBbox)

GlyfSampleLength == Len(GlyfSample(1))

\* the table directory entries of the model: head (whole, and too short for
\* checkSumAdjustment), glyf and loca (null transform: version bits 3;
\* transformed: 0), hmtx and OS/2 (null transform: version bits 0), by index
\* into the known tags or by an explicit tag; entries that do not parse; and
\* OS/2 and hmtx of 2^31 and 2^32 - 1 bytes
EntryInputs ==
    {EncodeEntry(1, <<>>, 12, -1),
     EncodeEntry(1, <<>>, 8, -1),
     EncodeEntry(63, HEAD_TAG, 12, -1),
     EncodeEntry(192 + 10, <<>>, 6, -1),
     EncodeEntry(10, <<>>, 16, GlyfSampleLength),
     EncodeEntry(192 + 11, <<>>, 4, -1),
     EncodeEntry(11, <<>>, 6, 0),
     EncodeEntry(3, <<>>, 5, -1),
     EncodeEntry(64 + 3, <<>>, 5, 5),
     EncodeEntry(128 + 63, HMTX_TAG, 5, 5),
     EncodeEntry(6, <<>>, 3, -1),
     EncodeEntry(128 + 6, <<>>, 3, 3),
     <<>>,
     <<63, 104, 101>>,
     <<1>>,
     <<1, 128, 12>>,
     <<6>> \o EncodeUIntBase128(<<32768, 0>>),
     <<3>> \o EncodeUIntBase128(<<65535, 65535>>)}

\* the table directory entries of the collections of the model: head, glyf
\* and loca (null transform), hmtx and OS/2
CollectionEntryInputs ==
    {EncodeEntry(1, <<>>, 12, -1),
     EncodeEntry(192 + 10, <<>>, 6, -1),
     EncodeEntry(192 + 11, <<>>, 4, -1),
     EncodeEntry(3, <<>>, 5, -1),
     EncodeEntry(6, <<>>, 3, -1)}

\* the tag of a well-formed encoded entry
EncodedTag(bytes) == PartialTableDirectoryEntry_from_buf(Cursor(bytes)).val.tag

\* the entries the next entry of a directory is drawn from, tables being the
\* entries before it: any entry for a single font; for a collection, an
\* entry of a tag the directory does not hold yet, or the empty buffer
EntryInputsOf(flavor, tables) ==
    IF flavor # TTF_COLLECTION_FLAVOR THEN EntryInputs
    ELSE {bytes \in CollectionEntryInputs :
             \A i \in 1..Len(tables) : tables[i].tag # EncodedTag(bytes)}
         \cup {<<>>}

\* 255UInt16 of a u16, in the shortest form
Encode255UInt16(n) ==
    IF n < LOWEST_UCODE THEN <<n>>
    ELSE IF n < 2 * LOWEST_UCODE THEN <<ONE_MORE_BYTE_CODE_1, n - LOWEST_UCODE>>
    ELSE IF n < 3 * LOWEST_UCODE + 3 THEN <<ONE_MORE_BYTE_CODE_2, n - 2 * LOWEST_UCODE>>
    ELSE <<WORD_CODE>> \o put_u16(n)

\* the table index lists of one font of a collection over n tables: the
\* first k indices in ascending order and the last k in descending order,
\* for k up to MaxFontTables; the empty list; and n, which is out of range
IndexLists(n) ==
    {<<>>, <<n>>}
    \cup UNION {{[i \in 1..k |-> i - 1], [i \in 1..k |-> n - i]} :
                   k \in 1..(IF n < MaxFontTables THEN n ELSE MaxFontTables)}

\* one font entry of a collection directory
EncodeFont(flavor, indices) ==
    Encode255UInt16(Len(indices)) \o flavor
    \o ConcatAll([i \in 1..Len(indices) |-> Encode255UInt16(indices[i])])

RECURSIVE FontEntries(_, _)
\* the encodings of m font entries over n tables
FontEntries(m, n) ==
    IF m = 0 THEN {<<>>}
    ELSE {EncodeFont(TTF_TRUE_TYPE_FLAVOR, idx) \o rest :
             idx \in IndexLists(n), rest \in FontEntries(m - 1, n)}

\* the collection directories of version v with the given numFonts values
\* for a file of n tables
CollectionsOf(v, num_fonts, n) ==
    UNION {{put_u32(v) \o Encode255UInt16(m) \o fonts : fonts \in FontEntries(m, n)} :
              m \in num_fonts}

\* the collection directories of the model for a file of n tables: versions
\* 1 and 2 with up to MaxFonts fonts, version 3 with at most one font; and
\* one that ends early
CollectionInputs(n) ==
    CollectionsOf(COLLECTION_V1, 0..MaxFonts, n)
    \cup CollectionsOf(COLLECTION_V2, 0..MaxFonts, n)
    \cup CollectionsOf(196608, 0..1, n)
    \cup {<<0, 1>>}

\* the bytes the Brotli stream of the model decompresses to for a table: a
\* sample for a transformed glyf table; for any other table, a pattern of
\* bytes (seed 2: bytes near 255, so that the checksums carry)
TableBytes(table, seed) ==
    IF table.tag = GLYF_TAG /\ table.transformed
       /\ table.src_length = u32_of(GlyfSampleLength)
    THEN GlyfSample(seed)
    ELSE [j \in 1..as_usize(table.src_length) |->
             IF seed = 1 THEN (37 * ((as_usize(table.src_offset) + j) % 256) + 11) % 256
             ELSE 255 - ((as_usize(table.src_offset) + j) % 2)]

\* whether the Brotli streams of the model hold the table: they hold no table
\* of 2^16 bytes or more
InStream(table) == table.src_length[1] = 0

Seeds == 1..2

\* what BrotliDecompress may write for the directory: the bytes of every
\* table (of every table the streams hold), or that stream less its last byte
BrotliOutputs(tables) ==
    LET stream(seed) == ConcatAll([i \in 1..Len(tables) |->
                            IF InStream(tables[i]) THEN TableBytes(tables[i], seed)
                            ELSE <<>>])
    IN  {stream(seed) : seed \in Seeds}
        \cup {SubSeq(stream(1), 1, Len(stream(1)) - 1)}

(***************************************************************************)
(* decode.rs: convert_woff2_to_ttf as a state machine.  pc is the stage    *)
(* the call has reached; the other variables are its argument, its locals  *)
(* and its result.                                                         *)
(***************************************************************************)
VARIABLES
    pc,                  \* the stage of the call, "done" once it has ended
    result,              \* what the call returned (NoResult while it runs)
    overflow_checks,     \* whether the build checks integer overflow
    input_buffer,        \* the header bytes of the input buffer
    header,              \* Woff2Header
    table_directory,     \* Woff2TableDirectory: [tables, uncompressed_length]
    collection_header,   \* Option<CollectionHeader>: [present, version, fonts], and
                         \* source, the input bytes from_buf was called on
    compressed_size,     \* the input bytes BrotliDecompress consumed
    decompressed_tables, \* what BrotliDecompress wrote
    header_end,          \* the size of the header region of out_buffer
    out_buffer,          \* the output buffer
    tables_iter,         \* write_to_buf: the entries its iterator has passed
    ttf_tables,          \* write_to_buf: the table records pushed
    glyf_table,          \* decode_glyf_table: its argument
    decoder,             \* decode_glyf_table: the decoder and the tables it builds
    buf,                 \* a function called on its own: the Buf it reads
    dest,                \* a function called on its own: the BufMut it writes
    arg,                 \* a function called on its own: its argument
    ret                  \* a function called on its own: what it returned

\* the variables of a call of convert_woff2_to_ttf or decode_glyf_table
convert_vars ==
    <<pc, result, overflow_checks, input_buffer, header, table_directory,
      collection_header, compressed_size, decompressed_tables, header_end, out_buffer,
      tables_iter, ttf_tables, glyf_table, decoder>>

\* the variables of a function called on its own
call_vars == <<buf, dest, arg, ret>>

vars == <<convert_vars, call_vars>>

\* no function has been called on its own
NoCall == [op |-> "", err |-> "", val |-> 0]

NoCalls ==
    /\ buf = Cursor(<<>>)
    /\ dest = <<>>
    /\ arg = <<>>
    /\ ret = NoCall

\* the locals of convert_woff2_to_ttf before they are assigned
NoLocals ==
    /\ header = NoHeader
    /\ table_directory = [tables |-> <<>>, uncompressed_length |-> <<0, 0>>]
    /\ collection_header = [present |-> FALSE, version |-> 0, fonts |-> <<>>,
                            source |-> <<>>]
    /\ compressed_size = 0
    /\ decompressed_tables = <<>>
    /\ header_end = 0
    /\ out_buffer = <<>>
    /\ tables_iter = 0
    /\ ttf_tables = <<>>

\* the locals of decode_glyf_table before they are assigned
NoGlyfLocals ==
    decoder = [err |-> "", dec |-> NoDecoder, glyph_index |-> 0,
               output_glyf_table |-> <<>>, output_loca_table |-> <<>>]

\* a call of convert_woff2_to_ttf on an input buffer, in a build with or
\* without overflow checks
Init ==
    /\ pc = "header"
    /\ result = NoResult
    /\ overflow_checks \in BOOLEAN
    /\ input_buffer \in HeaderInputs
    /\ NoLocals
    /\ glyf_table = <<>>
    /\ NoGlyfLocals
    /\ NoCalls

\* the call returns r (or, r being Panic, panics)
Return(r) ==
    /\ pc' = "done"
    /\ result' = r

\* the collection directory is skipped
AfterTableDirectory_skips_collection(h) == "decompress"

\* the stage after the table directory: the collection directory of a
\* collection, the Brotli stream of a single font
AfterTableDirectory(h) ==
    IF h.flavor = TTF_COLLECTION_FLAVOR THEN "collection" ELSE "decompress"

\* let header = Woff2Header::from_buf(input_buffer)?;
ParseHeader ==
    /\ pc = "header"
    /\ LET r == Woff2Header_from_buf(Cursor(input_buffer))
       IN  IF r.err # ""
           THEN Return(Invalid(r.err)) /\ UNCHANGED header
           ELSE /\ header' = r.val
                /\ pc' = "validate"
                /\ UNCHANGED result
    /\ UNCHANGED call_vars
    /\ UNCHANGED <<overflow_checks, input_buffer, table_directory, collection_header,
                   compressed_size, decompressed_tables, header_end, out_buffer,
                   tables_iter, ttf_tables, glyf_table, decoder>>

\* header.is_valid_header()?;
ValidateHeader ==
    /\ pc = "validate"
    /\ IF is_valid_header(header) # ""
       THEN Return(Invalid(is_valid_header(header)))
       ELSE pc' = "flavor" /\ UNCHANGED result
    /\ UNCHANGED call_vars
    /\ UNCHANGED <<overflow_checks, input_buffer, header, table_directory,
                   collection_header, compressed_size, decompressed_tables, header_end,
                   out_buffer, tables_iter, ttf_tables, glyf_table, decoder>>

\* if !matches!(header.flavor, ...) { Err(Invalid("Invalid font flavor"))? }
\* A directory of no tables is read by no iteration of the loop of
\* Woff2TableDirectory::from_buf.
CheckFlavor ==
    /\ pc = "flavor"
    /\ IF header.flavor \notin {TTF_COLLECTION_FLAVOR, TTF_CFF_FLAVOR, TTF_TRUE_TYPE_FLAVOR}
       THEN Return(Invalid("Invalid font flavor"))
       ELSE /\ pc' = IF header.num_tables = 0 THEN AfterTableDirectory(header)
                     ELSE "table_directory"
            /\ UNCHANGED result
    /\ UNCHANGED call_vars
    /\ UNCHANGED <<overflow_checks, input_buffer, header, table_directory,
                   collection_header, compressed_size, decompressed_tables, header_end,
                   out_buffer, tables_iter, ttf_tables, glyf_table, decoder>>

\* one iteration of the loop of Woff2TableDirectory::from_buf, on the bytes
\* of the next entry; src_offset += src_length is an addition in u32
ParseTableDirectoryEntry ==
    /\ pc = "table_directory"
    /\ \E bytes \in EntryInputsOf(header.flavor, table_directory.tables) :
          LET r == PartialTableDirectoryEntry_from_buf(Cursor(bytes))
              src_offset == table_directory.uncompressed_length
              entry == complete_entry(r.val, src_offset)
              tables == Append(table_directory.tables, entry)
              sum == add_u32(src_offset, entry.src_length, overflow_checks)
          IN  IF r.err # ""
              THEN /\ Return(Invalid(TableDirectoryError_to_string(r.err)))
                   /\ UNCHANGED table_directory
              ELSE IF sum.panic
              THEN /\ Return(Panic)
                   /\ table_directory' = [table_directory EXCEPT !.tables = tables]
              ELSE /\ table_directory' =
                          [tables |-> tables, uncompressed_length |-> sum.val]
                   /\ pc' = IF Len(tables) = header.num_tables
                            THEN AfterTableDirectory(header)
                            ELSE "table_directory"
                   /\ UNCHANGED result
    /\ UNCHANGED call_vars
    /\ UNCHANGED <<overflow_checks, input_buffer, header, collection_header,
                   compressed_size, decompressed_tables, header_end, out_buffer,
                   tables_iter, ttf_tables, glyf_table, decoder>>

\* Some(CollectionHeader::from_buf(input_buffer, header.num_tables)?)
ParseCollectionHeader ==
    /\ pc = "collection"
    /\ \E bytes \in CollectionInputs(header.num_tables) :
          LET r == CollectionHeader_from_buf(Cursor(bytes), header.num_tables)
          IN  IF r.err # ""
              THEN /\ Return(Invalid(r.err))
                   /\ collection_header' = [collection_header EXCEPT !.source = bytes]
              ELSE /\ collection_header' =
                          [present |-> TRUE, version |-> r.val.version,
                           fonts |-> r.val.fonts, source |-> bytes]
                   /\ pc' = "decompress"
                   /\ UNCHANGED result
    /\ UNCHANGED call_vars
    /\ UNCHANGED <<overflow_checks, input_buffer, header, table_directory,
                   compressed_size, decompressed_tables, header_end, out_buffer,
                   tables_iter, ttf_tables, glyf_table, decoder>>

\* the size check without the final byte: compressed_size against
\* total_compressed_size itself
compressed_size_matches_exactly(size, total_compressed_size) == size = total_compressed_size

\* the negation of the condition of the size check:
\* compressed_size != usize::try_from(header.total_compressed_size).unwrap() + 1
compressed_size_matches(size, total_compressed_size) == size = total_compressed_size + 1

\* the consumed counts BrotliDecompress may report in the model for a header
\* of the given total_compressed_size: the whole input, a byte less, a byte
\* more
ConsumedSizes(total_compressed_size) ==
    {total_compressed_size, total_compressed_size + 1, total_compressed_size + 2}

\* the message of the std::io::Error of BrotliDecompress (the brotli crate's)
BrotliError == "brotli"

\* let header_end = if let Some(collection) ... calculate_header_size(...)
HeaderSize ==
    IF collection_header.present
    THEN CollectionHeader_calculate_header_size(collection_header)
    ELSE calculate_header_size(Len(table_directory.tables))

\* From BrotliDecompress to the call of write_to_buf: the decompressor
\* fails, or it consumed compressed_size bytes of the input and wrote
\* decompressed_tables; the size check; the header region is reserved;
\* write_to_buf asserts that the region is a multiple of four and starts
\* its iterator.  A directory of no tables is written by no iteration.
Decompress ==
    /\ pc = "decompress"
    /\ \/ /\ Return(Invalid(BrotliError))
          /\ UNCHANGED <<compressed_size, decompressed_tables, header_end, out_buffer>>
       \/ \E consumed \in ConsumedSizes(header.total_compressed_size) :
             /\ compressed_size' = consumed
             /\ IF ~compressed_size_matches(consumed, header.total_compressed_size)
                THEN /\ Return(Invalid("Compressed stream size does not match header"))
                     /\ UNCHANGED <<decompressed_tables, header_end, out_buffer>>
                ELSE /\ decompressed_tables' \in BrotliOutputs(table_directory.tables)
                     /\ header_end' = HeaderSize
                     /\ out_buffer' = Zeros(HeaderSize)
                     /\ IF HeaderSize % 4 # 0
                        THEN Return(Panic)
                        ELSE /\ pc' = IF Len(table_directory.tables) = 0
                                      THEN "finalize" ELSE "write_tables"
                             /\ UNCHANGED result
    /\ UNCHANGED call_vars
    /\ UNCHANGED <<overflow_checks, input_buffer, header, table_directory,
                   collection_header, tables_iter, ttf_tables, glyf_table, decoder>>

\* one iteration of the loop of Woff2TableDirectory::write_to_buf and, after
\* the last, its assertion that every entry gave a record
WriteTable ==
    /\ pc = "write_tables"
    /\ LET w == write_to_buf_step(table_directory.tables, tables_iter, out_buffer,
                                  ttf_tables, decompressed_tables, overflow_checks)
       IN  IF w.err = "panic"
           THEN Return(Panic) /\ UNCHANGED <<out_buffer, tables_iter, ttf_tables>>
           ELSE IF w.err # ""
           THEN /\ Return(DecodeError_from_WriteTablesError(w.err, w.detail))
                /\ UNCHANGED <<out_buffer, tables_iter, ttf_tables>>
           ELSE /\ out_buffer' = w.out_buffer
                /\ tables_iter' = w.iter
                /\ ttf_tables' = w.ttf_tables
                /\ IF w.iter < Len(table_directory.tables)
                   THEN pc' = "write_tables" /\ UNCHANGED result
                   ELSE IF Len(w.ttf_tables) # Len(table_directory.tables)
                   THEN Return(Panic)
                   ELSE pc' = "finalize" /\ UNCHANGED result
    /\ UNCHANGED call_vars
    /\ UNCHANGED <<overflow_checks, input_buffer, header, table_directory,
                   collection_header, compressed_size, decompressed_tables, header_end,
                   glyf_table, decoder>>

\* out_buffer with its header region overwritten
WithHeader(buffer, end, header_bytes) == header_bytes \o Slice(buffer, end, Len(buffer))

\* the collection branch: sort the table indices of every font, write the
\* collection header, Ok(out_buffer)
FinalizeCollection ==
    /\ pc = "finalize"
    /\ collection_header.present
    /\ \E fonts \in sort_fonts(collection_header.fonts, ttf_tables) :
          LET sorted == [collection_header EXCEPT !.fonts = fonts]
          IN  /\ collection_header' = sorted
              /\ \E w \in CollectionHeader_write_to_buf(sorted, ttf_tables, overflow_checks) :
                    IF w.panic \/ Len(w.bytes) > header_end
                    THEN Return(Panic) /\ UNCHANGED out_buffer
                    ELSE /\ out_buffer' = WithHeader(out_buffer, Len(w.bytes), w.bytes)
                         /\ Return(OkResult)
    /\ UNCHANGED call_vars
    /\ UNCHANGED <<overflow_checks, input_buffer, header, table_directory,
                   compressed_size, decompressed_tables, header_end, tables_iter,
                   ttf_tables, glyf_table, decoder>>

\* the single font branch: the table directory, the head record, the
\* checksum adjustment, Ok(out_buffer)
FinalizeFont ==
    /\ pc = "finalize"
    /\ ~collection_header.present
    /\ \E ttf_header \in TableDirectory_new(header.flavor, ttf_tables, overflow_checks) :
          LET header_bytes == TableDirectory_write_to_buf(ttf_header)
              written == WithHeader(out_buffer, Len(header_bytes), header_bytes)
              found == find_table(ttf_header, HEAD_TAG)
          IN  IF ttf_header.panic \/ Len(header_bytes) > header_end
              THEN Return(Panic) /\ UNCHANGED out_buffer
              ELSE IF found = {}
              THEN /\ out_buffer' = written
                   /\ Return(Invalid("Missing 'head' table"))
              ELSE \E idx \in found :
                      LET head_table_record == ttf_header.table_records[idx]
                          checksum_adjustment == calculate_font_checksum_adjustment(written)
                          range == get_range(head_table_record)
                          head_table == set_checksum_adjustment(
                                            Slice(written, range[1], range[2]),
                                            checksum_adjustment)
                      IN  IF range[2] > Len(written)
                          THEN Return(Panic) /\ out_buffer' = written
                          ELSE IF head_table.err # ""
                          THEN Return(Invalid("Truncated 'head' table")) /\ out_buffer' = written
                          ELSE /\ out_buffer' = Slice(written, 0, range[1])
                                               \o head_table.table
                                               \o Slice(written, range[2], Len(written))
                               /\ Return(OkResult)
    /\ UNCHANGED call_vars
    /\ UNCHANGED <<overflow_checks, input_buffer, header, table_directory,
                   collection_header, compressed_size, decompressed_tables, header_end,
                   tables_iter, ttf_tables, glyf_table, decoder>>

Next ==
    \/ ParseHeader
    \/ ValidateHeader
    \/ CheckFlavor
    \/ ParseTableDirectoryEntry
    \/ ParseCollectionHeader
    \/ Decompress
    \/ WriteTable
    \/ FinalizeCollection
    \/ FinalizeFont

Spec == Init /\ [][Next]_vars

(***************************************************************************)
(* glyf_decoder/mod.rs: decode_glyf_table as a state machine of its own,   *)
(* one glyph a step, on transformed glyf tables drawn from GlyfInputs.     *)
(* Its error is carried to result the way convert_woff2_to_ttf carries it. *)
(***************************************************************************)
\* the most glyphs of a generated transformed glyf table
MaxGlyphs == 2

\* nContours of the glyphs of the generated tables: an empty glyph, a simple
\* glyph of one contour, a composite glyph
GlyphKinds == {0, 1, -1}

\* one component of a composite glyph whose two arguments are words
WordComponent == <<0, 1, 0, 1, 2, 3, 4, 5>>

\* the composite streams of the generated tables: empty, one component of 6
\* or of 8 bytes, and a stream that ends inside a component
CompositeStreams == {<<>>, OneComponent, WordComponent, <<0, 0, 0>>}

\* the bbox streams of the generated tables: up to MaxGlyphs bounding boxes
BboxStreams == {ConcatAll([i \in 1..k |-> OneBbox]) : k \in 0..MaxGlyphs}

\* the seven substreams of a table of two glyphs that reads every one of
\* them: a simple glyph of one point with one instruction, and a composite
\* glyph, both with a bounding box
FullStreams ==
    <<put_i16(1) \o put_i16(-1), <<1>>, <<0>>, <<5, 1>>, OneComponent,
      OneBbox \o OneBbox, <<9>>>>

\* the table of seven substreams
SevenStreams(s) ==
    EncodeGlyfTable(0, 2, 0, s[1], s[2], s[3], s[4], s[5], <<192, 0, 0, 0>>, s[6], s[7],
                    <<>>)

\* the tables of FullStreams with one more byte in one of the substreams
ResidualTables ==
    {SevenStreams([FullStreams EXCEPT ![k] = Append(@, 0)]) : k \in 1..7}

\* the tables of FullStreams with one of the substreams less its last byte
ShortTables ==
    {SevenStreams([FullStreams EXCEPT ![k] = SubSeq(@, 1, Len(@) - 1)]) : k \in 1..7}

\* the transformed glyf tables of the model; one that ends inside its
\* header; one whose bboxStream size is smaller than its bbox bitmap; one
\* followed by one more byte than its header announces and one that lacks
\* its last byte
GlyfInputs ==
    UNION {{GlyfTableOf(kinds, bits, index_format, composite, bbox) :
               kinds \in [1..n -> GlyphKinds], bits \in [1..n -> BOOLEAN]} :
              n \in 1..MaxGlyphs, index_format \in {0, 1},
              composite \in CompositeStreams, bbox \in BboxStreams}
    \cup {SubSeq(GlyfSample(1), 1, GLYF_HEADER_SIZE - 1),
          EncodeGlyfTable(0, 1, 0, <<0, 0>>, <<>>, <<>>, <<>>, <<>>, <<>>, <<>>, <<>>, <<>>),
          Append(GlyfSample(1), 0),
          SubSeq(GlyfSample(1), 1, Len(GlyfSample(1)) - 1),
          SevenStreams(FullStreams)}
    \cup ResidualTables \cup ShortTables

\* a call of decode_glyf_table on a transformed glyf table
InitGlyf ==
    /\ pc = "glyf_new"
    /\ result = NoResult
    /\ overflow_checks \in BOOLEAN
    /\ input_buffer = <<>>
    /\ NoLocals
    /\ glyf_table \in GlyfInputs
    /\ NoGlyfLocals
    /\ NoCalls

\* decode_glyf_table ends with the GlyfDecoderError e, or panics
GlyfReturn(e) ==
    Return(IF e = "panic" THEN Panic
           ELSE DecodeError_from_WriteTablesError("GlyfDecoderError", e))

\* Woff2GlyfDecoder::new(glyf_table)?, and parse_all_glyphs up to its loop
NewGlyfDecoder ==
    /\ pc = "glyf_new"
    /\ LET d == Woff2GlyfDecoder_new(glyf_table, overflow_checks)
           g == parse_all_glyphs_start(d.val, overflow_checks)
       IN  IF d.err # "" THEN GlyfReturn(d.err) /\ UNCHANGED decoder
           ELSE IF g.err # "" THEN GlyfReturn(g.err) /\ UNCHANGED decoder
           ELSE /\ decoder' = g
                /\ pc' = "glyf_loop"
                /\ UNCHANGED result
    /\ UNCHANGED call_vars
    /\ UNCHANGED <<overflow_checks, input_buffer, header, table_directory,
                   collection_header, compressed_size, decompressed_tables, header_end,
                   out_buffer, tables_iter, ttf_tables, glyf_table>>

\* one iteration of the loop of parse_all_glyphs
ParseNextGlyph ==
    /\ pc = "glyf_loop"
    /\ decoder.glyph_index < decoder.dec.num_glyphs
    /\ LET g == parse_all_glyphs_step(decoder, overflow_checks)
       IN  /\ decoder' = g
           /\ IF g.err # "" THEN GlyfReturn(g.err)
              ELSE UNCHANGED <<pc, result>>
    /\ UNCHANGED call_vars
    /\ UNCHANGED <<overflow_checks, input_buffer, header, table_directory,
                   collection_header, compressed_size, decompressed_tables, header_end,
                   out_buffer, tables_iter, ttf_tables, glyf_table>>

\* parse_all_glyphs after its loop, and the has_read_all check
FinishGlyphs ==
    /\ pc = "glyf_loop"
    /\ decoder.glyph_index = decoder.dec.num_glyphs
    /\ LET r == decode_glyf_table_finish(decoder)
       IN  IF r.err # ""
           THEN /\ decoder' = [decoder EXCEPT !.err = r.err]
                /\ GlyfReturn(r.err)
           ELSE /\ decoder' = [decoder EXCEPT !.output_glyf_table = r.glyf,
                                              !.output_loca_table = r.loca]
                /\ Return(OkResult)
    /\ UNCHANGED call_vars
    /\ UNCHANGED <<overflow_checks, input_buffer, header, table_directory,
                   collection_header, compressed_size, decompressed_tables, header_end,
                   out_buffer, tables_iter, ttf_tables, glyf_table>>

NextGlyf ==
    \/ NewGlyfDecoder
    \/ ParseNextGlyph
    \/ FinishGlyphs

SpecGlyf == InitGlyf /\ [][NextGlyf]_vars

(***************************************************************************)
(* buffer_util.rs: try_get_base_128 and try_get_255_u16 called on their    *)
(* own, the way the tests of buffer_util.rs call them: on a Cursor over    *)
(* the bytes of a test (arg), here any number of times in any order.       *)
(***************************************************************************)
\* no call of convert_woff2_to_ttf is under way
NoConvert ==
    /\ pc = "call"
    /\ result = NoResult
    /\ input_buffer = <<>>
    /\ NoLocals
    /\ glyf_table = <<>>
    /\ NoGlyfLocals

\* the longest buffer of bytes of ReaderAlphabet
MaxReaderLen == 5

\* the bytes of the generated buffers: the ends of the range with the top
\* bit clear and with it set, and the first bytes around the largest u32
ReaderAlphabet == {0, 127, 128, 143, 144, 255}

RECURSIVE SeqsOver(_, _)
\* the sequences of exactly n elements of the set
SeqsOver(set, n) ==
    IF n = 0 THEN {<<>>}
    ELSE {<<x>> \o s : x \in set, s \in SeqsOver(set, n - 1)}

\* the buffers of up to MaxReaderLen bytes of ReaderAlphabet, and the three
\* encodings of 506 of the test u255_uint_16_506_works
ReaderBuffers ==
    UNION {SeqsOver(ReaderAlphabet, n) : n \in 0..MaxReaderLen}
    \cup {<<255, 253>>, <<254, 0>>, <<253, 1, 250>>}

\* the 16-bit halves of the u32 values the tests encode
Halves == {0, 1, 127, 128, 16383, 16384, 32767, 32768, 65535}

\* a test: the value encoded (a u32 <<hi, lo>>; none for a buffer of bytes)
\* and the buffer
ReaderTest(kind, expected, data) == [kind |-> kind, expected |-> expected, data |-> data]

\* the tests of try_get_255_u16: every u16 in the 255UInt16 form
U255Tests == {ReaderTest("255UInt16", <<0, v>>, Encode255UInt16(v)) : v \in 0..65535}

\* the tests of try_get_base_128: u32 values in the UIntBase128 form, alone
\* and followed by a byte
Base128Tests ==
    {ReaderTest("UIntBase128", <<hi, lo>>, EncodeUIntBase128(<<hi, lo>>) \o tail) :
        hi \in Halves, lo \in Halves, tail \in {<<>>, <<128>>}}

\* the tests on buffers of bytes
ByteTests == {ReaderTest("bytes", None, data) : data \in ReaderBuffers}

InitReaders ==
    /\ NoConvert
    /\ overflow_checks = FALSE
    /\ \/ arg \in U255Tests
       \/ arg \in Base128Tests
       \/ arg \in ByteTests
    /\ buf = Cursor(arg.data)
    /\ dest = <<>>
    /\ ret = NoCall

\* what a reader called at position pos returned
Returned(op, pos, r) == [op |-> op, pos |-> pos, err |-> r.err, val |-> r.val]

\* buf.try_get_base_128()
GetBase128 ==
    /\ ret' = Returned("try_get_base_128", buf.pos, try_get_base_128(buf))
    /\ buf' = try_get_base_128(buf).cur
    /\ UNCHANGED <<dest, arg>>
    /\ UNCHANGED convert_vars

\* buf.try_get_255_u16()
Get255U16 ==
    /\ ret' = Returned("try_get_255_u16", buf.pos, try_get_255_u16(buf))
    /\ buf' = try_get_255_u16(buf).cur
    /\ UNCHANGED <<dest, arg>>
    /\ UNCHANGED convert_vars

NextReaders ==
    \/ GetBase128
    \/ Get255U16

SpecReaders == InitReaders /\ [][NextReaders]_vars

(***************************************************************************)
(* checksum.rs: calculate_checksum called on its own, on a block of data   *)
(* (arg) and on the block extended with zeros to a multiple of four.       *)
(***************************************************************************)
\* the longest generated block of data
MaxDataLen == 6

\* the bytes of the generated blocks: with 255 the sums exceed 2^32
DataAlphabet == {0, 1, 255}

DataInputs == UNION {SeqsOver(DataAlphabet, n) : n \in 0..MaxDataLen}

InitChecksum ==
    /\ NoConvert
    /\ overflow_checks = FALSE
    /\ arg \in DataInputs
    /\ buf = Cursor(<<>>)
    /\ dest = <<>>
    /\ ret = NoCall

\* calculate_checksum(arg); first is what the first call returned, and
\* first_len the length of its data
CalculateChecksum ==
    /\ ret' = [op |-> "calculate_checksum", err |-> "",
               val |-> calculate_checksum(arg), len |-> Len(arg),
               first |-> IF ret = NoCall THEN calculate_checksum(arg) ELSE ret.first,
               first_len |-> IF ret = NoCall THEN Len(arg) ELSE ret.first_len]
    /\ UNCHANGED <<buf, dest, arg>>
    /\ UNCHANGED convert_vars

\* the data gets one more zero byte, while its length is not a multiple of
\* four
ExtendWithZero ==
    /\ ret # NoCall
    /\ Len(arg) % 4 # 0
    /\ arg' = Append(arg, 0)
    /\ UNCHANGED <<buf, dest, ret>>
    /\ UNCHANGED convert_vars

NextChecksum ==
    \/ CalculateChecksum
    \/ ExtendWithZero

SpecChecksum == InitChecksum /\ [][NextChecksum]_vars

(***************************************************************************)
(* buffer_util.rs: try_copy_to_buf called on its own, as the test          *)
(* try_copy_to_buf calls it: copies of any size from a source (buf) into a *)
(* Vec (dest), with dest.put_u8(0) between them.  The source is a Cursor   *)
(* over a slice, or a Buf whose chunks are shorter than its data.          *)
(***************************************************************************)
\* the longest generated source
MaxSourceLen == 4

\* a Buf over the data whose chunks end at the multiples of chunk_len
ChunkedBuf(data, chunk_len) == [data |-> data, pos |-> 0, chunk_len |-> chunk_len]

\* the data of the generated sources: the bytes 1, 2, ...
SourceData == {[i \in 1..n |-> i] : n \in 0..MaxSourceLen}

\* the most bytes the test puts into dest with put_u8
MaxPut == 1

InitCopy ==
    /\ NoConvert
    /\ overflow_checks = FALSE
    /\ arg = 0
    /\ \E data \in SourceData :
          \/ buf = Cursor(data)
          \/ \E chunk_len \in 1..2 : buf = ChunkedBuf(data, chunk_len)
    /\ dest = <<>>
    /\ ret = NoCall

\* src.try_copy_to_buf(&mut dest, num_bytes)
CopyToBuf ==
    /\ \E num_bytes \in 0..(MaxSourceLen + 1) :
          LET r == try_copy_to_buf(buf, num_bytes)
          IN  /\ ret' = [op |-> "try_copy_to_buf", num_bytes |-> num_bytes,
                         err |-> r.err, val |-> 0]
              /\ buf' = r.cur
              /\ dest' = IF r.err = "" THEN dest \o r.val ELSE dest
    /\ UNCHANGED arg
    /\ UNCHANGED convert_vars

\* dest.put_u8(0); arg counts the bytes put
PutU8 ==
    /\ arg < MaxPut
    /\ arg' = arg + 1
    /\ dest' = Append(dest, 0)
    /\ ret' = [op |-> "put_u8", num_bytes |-> 1, err |-> "", val |-> 0]
    /\ UNCHANGED buf
    /\ UNCHANGED convert_vars

NextCopy ==
    \/ CopyToBuf
    \/ PutU8

SpecCopy == InitCopy /\ [][NextCopy]_vars


(***************************************************************************)
(* ttf_header.rs: TableDirectory::new and write_to_buf on directories of   *)
(* any number of table records                                             *)
(***************************************************************************)
\* every number of records up to this one is generated
MaxDirectoryTables == 40

\* the directories up to this number of records are written
MaxWrittenTables == 4

\* the numbers of table records: the small ones, and those around the
\* powers of two up to u16::MAX
DirectorySizes ==
    (1..MaxDirectoryTables)
    \cup UNION {{Pow2(k) - 1, Pow2(k), Pow2(k) + 1} : k \in 6..15}
    \cup {Pow2(16) - 1}

\* n table records of ascending tags
DirectoryRecords(n) ==
    [i \in 1..n |-> TableRecord(<<97, 97 + (i \div 65536), (i \div 256) % 256, i % 256>>,
                                <<0, i>>, 0, 0)]

InitTableDirectory ==
    /\ NoConvert
    /\ overflow_checks \in BOOLEAN
    /\ arg \in {[sfnt_version |-> v, num_tables |-> n] :
                   v \in {TTF_TRUE_TYPE_FLAVOR}, n \in DirectorySizes}
    /\ buf = Cursor(<<>>)
    /\ dest = <<>>
    /\ ret = NoCall

\* TableDirectory::new(sfnt_version, table_records); the records of the
\* long directories are given in the order of their tags
NewTableDirectory ==
    /\ ret = NoCall
    /\ \E dir \in IF arg.num_tables <= MaxWrittenTables
                  THEN TableDirectory_new(arg.sfnt_version, DirectoryRecords(arg.num_tables),
                                          overflow_checks)
                  ELSE {TableDirectory_fields(arg.sfnt_version,
                                              DirectoryRecords(arg.num_tables),
                                              overflow_checks)} :
          ret' = [op |-> "TableDirectory::new", err |-> "", val |-> 0,
                  panic |-> dir.panic, num_tables |-> dir.num_tables,
                  search_range |-> dir.search_range,
                  entry_selector |-> dir.entry_selector,
                  range_shift |-> dir.range_shift]
    /\ UNCHANGED <<buf, dest, arg>>
    /\ UNCHANGED convert_vars

\* ttf_header.write_to_buf(&mut dest)
WriteTableDirectory ==
    /\ ret.op = "TableDirectory::new"
    /\ ~ret.panic
    /\ arg.num_tables <= MaxWrittenTables
    /\ dest' = TableDirectory_write_to_buf(
                   [sfnt_version |-> arg.sfnt_version, num_tables |-> ret.num_tables,
                    search_range |-> ret.search_range,
                    entry_selector |-> ret.entry_selector,
                    range_shift |-> ret.range_shift,
                    table_records |-> DirectoryRecords(arg.num_tables)])
    /\ ret' = [ret EXCEPT !.op = "TableDirectory::write_to_buf"]
    /\ UNCHANGED <<buf, arg>>
    /\ UNCHANGED convert_vars

NextTableDirectory ==
    \/ NewTableDirectory
    \/ WriteTableDirectory

SpecTableDirectory == InitTableDirectory /\ [][NextTableDirectory]_vars

(***************************************************************************)
(* woff2/table_directory.rs: PartialTableDirectoryEntry::from_buf and the  *)
(* body of the loop of Woff2TableDirectory::from_buf on one entry          *)
(***************************************************************************)
\* the largest origLength and transformLength of the generated entries
MaxEntryLength == 300

\* the table_ref's of the generated flags bytes: cmap, head, glyf, loca, the
\* last known tag and the one that announces a FourCC
EntryTableRefs == {0, 1, 10, 11, 62, 63}

\* the FourCC's that follow a table_ref of 63
LiteralTags == {GLYF_TAG, LOCA_TAG, HEAD_TAG, <<122, 122, 122, 122>>}

\* the lengths of the generated entries
EntryLengths == {0, 8, 200, MaxEntryLength}

\* what follows origLength: nothing, a second UIntBase128, and a byte more
EntryTails ==
    {<<>>} \cup UNION {{EncodeBase128(l), EncodeBase128(l) \o <<5>>} : l \in EntryLengths}

InitEntry ==
    /\ NoConvert
    /\ overflow_checks = FALSE
    /\ \E version \in 0..3, table_ref \in EntryTableRefs, o \in EntryLengths,
          tail \in EntryTails :
          \E tag \in IF table_ref = 63 THEN LiteralTags ELSE {<<>>} :
              arg = <<version * 64 + table_ref>> \o tag \o EncodeBase128(o) \o tail
    /\ buf = Cursor(arg)
    /\ dest = <<>>
    /\ ret = NoCall

\* let entry = PartialTableDirectoryEntry::from_buf(buffer)?; and the
\* complete entry the loop pushes, at src_offset 0
ParseEntry ==
    /\ ret = NoCall
    /\ LET r == PartialTableDirectoryEntry_from_buf(buf)
       IN  /\ ret' = [op |-> "PartialTableDirectoryEntry::from_buf", err |-> r.err,
                      val |-> IF r.err = "" THEN complete_entry(r.val, <<0, 0>>)
                              ELSE complete_entry(NoEntry, <<0, 0>>),
                      transform_length |-> r.val.transform_length]
           /\ buf' = r.cur
    /\ UNCHANGED <<dest, arg>>
    /\ UNCHANGED convert_vars

NextEntry == ParseEntry

SpecEntry == InitEntry /\ [][NextEntry]_vars

(***************************************************************************)
(* glyf_decoder/mod.rs: decode_glyf_table on transformed glyf tables of    *)
(* one glyph, generated from a description of the glyph (arg): nContours,  *)
(* the points of each contour or the flag words of the components, the bit *)
(* of the glyph in the bbox bitmap and in the overlap bitmap               *)
(***************************************************************************)
\* the most points of a generated simple glyph
MaxPoints == 2

\* the most contours of a generated simple glyph
MaxContours == 2

\* the most components of a generated composite glyph
MaxComponents == 2

\* the points of the generated glyphs, each the byte of flagStream and the
\* bytes of glyphStream of its triplet: the rows 0, 1 and 10 of COORD_LUT
\* (one byte), 84 (two bytes) and 124 to 127 (four bytes), on and off the
\* curve.  The deltas are of 300 at most, so that the position of a point
\* stays within i16.
PointSamples ==
    <<<<0, <<0>>>>, <<128 + 127, <<1, 0, 255, 0>>>>, <<1, <<7>>>>,
      <<128 + 10, <<200>>>>, <<11, <<0>>>>, <<84, <<3, 4>>>>,
      <<124, <<1, 44, 0, 0>>>>, <<127, <<0, 255, 1, 0>>>>, <<126, <<0, 4, 0, 9>>>>>>

\* the sequences of length n over a set
SeqsOfLen(set, n) == [1..n -> set]

\* the sequences of n samples taken from a list of samples at any place of
\* it, one after the other or every fourth, going round the list
Runs(samples, n) ==
    {[i \in 1..n |-> samples[((start + step * (i - 1)) % Len(samples)) + 1]] :
        start \in 0..(Len(samples) - 1), step \in {1, 4}}

\* the point counts of the contours of the generated simple glyphs: one
\* count a contour, MaxPoints points at most in all
RECURSIVE SumSeq(_)
SumSeq(s) == IF s = <<>> THEN 0 ELSE Head(s) + SumSeq(Tail(s))

PointCounts ==
    UNION {{counts \in SeqsOfLen(0..MaxPoints, c) : SumSeq(counts) <= MaxPoints} :
              c \in 1..MaxContours}

\* the flag words of the generated components, without MORE_COMPONENTS
ComponentFlagWords == <<0, 1, 8, 64, 128, 8 + 64, 1 + 64 + 128, 256, 1 + 128, 256 + 1 + 8>>

\* a description of a glyph
GlyphDescription(n_contours, n_points, points, components, bbox, overlap) ==
    [n_contours |-> n_contours, n_points |-> n_points, points |-> points,
     components |-> components, bbox |-> bbox, overlap |-> overlap]

\* the simple glyphs: overlap is 0 without an overlap bitmap, 1 with the bit
\* of the glyph clear, 2 with it set
SimpleGlyphs ==
    UNION {{GlyphDescription(Len(counts), counts, points, <<>>, bbox, overlap) :
               points \in Runs(PointSamples, SumSeq(counts)),
               bbox \in BOOLEAN, overlap \in 0..2} :
              counts \in PointCounts}

\* the composite glyphs, of nContours -1 and of another negative nContours;
\* any component has MORE_COMPONENTS (bit 5) or not: the stream is well
\* formed when every component but the last has
CompositeGlyphs ==
    UNION {{GlyphDescription(n_contours,
                             <<>>, <<>>,
                             [j \in 1..n |-> words[j] + mores[j]],
                             bbox, 0) :
               words \in Runs(ComponentFlagWords, n),
               mores \in SeqsOfLen({0, 32}, n), bbox \in BOOLEAN,
               n_contours \in {-1, -2}} :
              n \in 1..MaxComponents}

\* the empty glyph
EmptyGlyphs == {GlyphDescription(0, <<>>, <<>>, <<>>, FALSE, 0)}

\* the bytes of compositeStream after the flag word of component j: the glyph
\* index and the arguments, and the scale, the two scales or the matrix
ComponentArguments(j, flag_word) ==
    [k \in 1..(4 + (IF flag_word % 2 = 1 THEN 2 ELSE 0)
                 + (IF (flag_word \div 8) % 2 = 1 THEN 2
                    ELSE IF (flag_word \div 64) % 2 = 1 THEN 4
                    ELSE IF (flag_word \div 128) % 2 = 1 THEN 8
                    ELSE 0)) |-> 16 * j + k]

\* some component of the glyph has WE_HAVE_INSTRUCTIONS (bit 8)
AnnouncesInstructions(d) ==
    \E j \in 1..Len(d.components) : (d.components[j] \div 256) % 2 = 1

\* the instructions of the generated composite glyphs that have them
SampleInstructions == <<9, 8>>

\* the transformed glyf table of the one glyph d
EncodeGlyph(d) ==
    EncodeGlyfTable(IF d.overlap > 0 THEN 1 ELSE 0, 1, 0,
        put_i16(d.n_contours),
        ConcatAll([i \in 1..Len(d.n_points) |-> Encode255UInt16(d.n_points[i])]),
        [i \in 1..Len(d.points) |-> d.points[i][1]],
        ConcatAll([i \in 1..Len(d.points) |-> d.points[i][2]])
            \o (IF d.n_contours > 0 THEN <<0>>
                ELSE IF AnnouncesInstructions(d) THEN <<Len(SampleInstructions)>>
                ELSE <<>>),
        ConcatAll([j \in 1..Len(d.components) |->
                      put_u16(d.components[j]) \o ComponentArguments(j, d.components[j])]),
        <<IF d.bbox THEN 128 ELSE 0, 0, 0, 0>>,
        IF d.bbox THEN OneBbox ELSE <<>>,
        IF AnnouncesInstructions(d) THEN SampleInstructions ELSE <<>>,
        IF d.overlap > 0 THEN <<IF d.overlap = 2 THEN 128 ELSE 0, 0, 0, 0>> ELSE <<>>)

\* a call of decode_glyf_table on the table of one described glyph
InitGlyph ==
    /\ pc = "glyf_new"
    /\ result = NoResult
    /\ overflow_checks \in BOOLEAN
    /\ input_buffer = <<>>
    /\ NoLocals
    /\ \/ arg \in SimpleGlyphs
       \/ arg \in CompositeGlyphs
       \/ arg \in EmptyGlyphs
    /\ glyf_table = EncodeGlyph(arg)
    /\ NoGlyfLocals
    /\ buf = Cursor(<<>>)
    /\ dest = <<>>
    /\ ret = NoCall

SpecGlyph == InitGlyph /\ [][NextGlyf]_vars

(***************************************************************************)
(* checksum.rs and woff2/table_directory.rs: set_checksum_adjustment       *)
(* called on its own on a head table (arg), and the loop of                *)
(* Woff2TableDirectory::write_to_buf on a directory whose one entry is     *)
(* that head table.                                                        *)
(***************************************************************************)
\* the longest generated head table
MaxHeadLen == 14

\* the bytes of the checkSumAdjustment carried in the generated head tables
AdjustmentBytes == {0, 1, 255}

\* the head tables: byte i is 16 + i, but for the bytes 8..12 of the tables
\* that have them
HeadTables ==
    {[i \in 1..n |-> 16 + i] : n \in 0..11}
    \cup UNION {{[i \in 1..n |-> IF i \in 9..12 THEN adjustment[i - 8] ELSE 16 + i] :
                    adjustment \in SeqsOfLen(AdjustmentBytes, 4)} :
                   n \in 12..MaxHeadLen}

\* the values given to set_checksum_adjustment
AdjustmentValues == {<<0, 0>>, <<0, 1>>, <<4660, 22136>>, <<65535, 65535>>}

\* the directory entry of a head table of n bytes at the start of the
\* decompressed tables
HeadEntry(n) ==
    complete_entry([transformed |-> FALSE, tag |-> HEAD_TAG, orig_length |-> u32_of(n),
                    transform_length |-> None], u32_of(0))

InitHead ==
    /\ NoConvert
    /\ overflow_checks \in BOOLEAN
    /\ arg \in HeadTables
    /\ buf = Cursor(<<>>)
    /\ dest \in {<<>>, <<1, 2, 3, 4>>}
    /\ ret = NoCall

\* set_checksum_adjustment(&mut arg, value): table is arg after the call
SetChecksumAdjustment ==
    /\ ret = NoCall
    /\ \E value \in AdjustmentValues :
          LET r == set_checksum_adjustment(arg, value)
          IN  ret' = [op |-> "set_checksum_adjustment", err |-> r.err, val |-> value,
                      table |-> r.table, records |-> <<>>, result |-> NoResult,
                      offset |-> 0]
    /\ UNCHANGED <<buf, dest, arg>>
    /\ UNCHANGED convert_vars

\* write_to_buf(&arg, &mut dest) of the directory of the one head entry, as
\* convert_woff2_to_ttf calls it; offset is the length of dest before
WriteHeadTable ==
    /\ ret = NoCall
    /\ LET w == write_to_buf_step(<<HeadEntry(Len(arg))>>, 0, dest, <<>>, arg,
                                  overflow_checks)
       IN  /\ ret' = [op |-> "write_to_buf", err |-> w.err, val |-> <<0, 0>>,
                      table |-> arg, records |-> w.ttf_tables,
                      result |-> IF w.err = "" THEN OkResult
                                 ELSE IF w.err = "panic" THEN Panic
                                 ELSE DecodeError_from_WriteTablesError(w.err, w.detail),
                      offset |-> Len(dest)]
           /\ dest' = w.out_buffer
    /\ UNCHANGED <<buf, arg>>
    /\ UNCHANGED convert_vars

NextHead ==
    \/ SetChecksumAdjustment
    \/ WriteHeadTable

SpecHead == InitHead /\ [][NextHead]_vars

(***************************************************************************)
(* What the claims speak of.                                               *)
(***************************************************************************)
\* the input is a collection
IsCollection == header.flavor = TTF_COLLECTION_FLAVOR

\* the big-endian u16 and u32 at a byte offset of a buffer
U16At(buffer, offset) == BytesValue(Slice(buffer, offset, offset + 2))

U32At(buffer, offset) == BytesValue(Slice(buffer, offset, offset + 4))

\* the offsets of the SFNT table directories of an output file: those the
\* TTC header lists, or 0
EmittedDirectories(buffer) ==
    IF Slice(buffer, 0, 4) = TTF_COLLECTION_FLAVOR
    THEN {U32At(buffer, 12 + 4 * (i - 1)) : i \in 1..U32At(buffer, 8)}
    ELSE {0}

\* the tags of the records of the table directory at an offset of an output
\* file, in the order of the file
EmittedTags(buffer, offset) ==
    [i \in 1..U16At(buffer, offset + 4) |->
        Slice(buffer, offset + 12 + TABLE_RECORD_SIZE * (i - 1),
              offset + 12 + TABLE_RECORD_SIZE * (i - 1) + 4)]

\* the call got past the Brotli stream and its size check
Decompressed == compressed_size = header.total_compressed_size + 1

\* the call has ended, and ended after write_to_buf had returned Ok
Finalized ==
    /\ pc = "done"
    /\ Decompressed
    /\ Len(table_directory.tables) = header.num_tables
    /\ tables_iter = Len(table_directory.tables)

\* the entry the iterator of write_to_buf stands before
CurrentTable == table_directory.tables[tables_iter + 1]

\* the entry after it is a loca entry
NextIsLoca ==
    /\ tables_iter + 2 <= Len(table_directory.tables)
    /\ table_directory.tables[tables_iter + 2].tag = LOCA_TAG

(***************************************************************************)
(* C1                                                                      *)
(***************************************************************************)
\* the input holds a font, and every font of it has a head table (as a
\* valid font has)
EveryFontHasHead ==
    IF IsCollection
    THEN /\ collection_header.fonts # <<>>
         /\ \A f \in 1..Len(collection_header.fonts) :
                \E i \in 1..Len(collection_header.fonts[f].table_indices) :
                    table_directory.tables[collection_header.fonts[f].table_indices[i] + 1].tag
                        = HEAD_TAG
    ELSE \E i \in 1..Len(table_directory.tables) : table_directory.tables[i].tag = HEAD_TAG

\* C1, as stated: whenever the call returns Ok(output) for a valid input, a
\* single font or a collection, calculate_checksum(output) is 0xB1B0AFBA.
WholeFileChecksum ==
    (result = OkResult /\ EveryFontHasHead) =>
        calculate_checksum(out_buffer) = CHECKSUM_MINUEND

\* C1, amended: whenever the call returns Ok(output) for an input that is not
\* a collection, calculate_checksum(output) is 0xB1B0AFBA.
SingleFontChecksum ==
    (result = OkResult /\ ~IsCollection) =>
        calculate_checksum(out_buffer) = CHECKSUM_MINUEND

\* a single font of three tables has been decoded, its tables holding bytes
\* of 255, and checkSumAdjustment is not zero
SingleFontChecksumReached ==
    /\ result = OkResult
    /\ ~IsCollection
    /\ Len(ttf_tables) = 3
    /\ \E i \in 1..Len(out_buffer) : out_buffer[i] = 255
    /\ \E i \in 1..Len(ttf_tables) :
          /\ ttf_tables[i].tag = HEAD_TAG
          /\ Slice(out_buffer, ttf_tables[i].offset + 8, ttf_tables[i].offset + 12)
                 # <<0, 0, 0, 0>>

(***************************************************************************)
(* C2                                                                      *)
(***************************************************************************)
\* C2: in every successful output, the records of every emitted table
\* directory (the one of a single font, each font's of a collection) are in
\* ascending order of tag.
EmittedDirectoriesSorted ==
    result = OkResult =>
        \A offset \in EmittedDirectories(out_buffer) :
            LET tags == EmittedTags(out_buffer, offset)
            IN  \A i \in 1..(Len(tags) - 1) : TagLeq(tags[i], tags[i + 1])

\* a collection has been decoded in which a font lists two tables of
\* different tags, and its directory names them in the other order than the
\* WOFF2 directory does
EmittedDirectoriesSortedReached ==
    /\ result = OkResult
    /\ IsCollection
    /\ \E f \in 1..Len(collection_header.fonts) :
          /\ collection_header.fonts[f].table_indices = <<1, 0>>
          /\ TagLess(table_directory.tables[2].tag, table_directory.tables[1].tag)
          /\ \E offset \in EmittedDirectories(out_buffer) :
                EmittedTags(out_buffer, offset)
                    = <<table_directory.tables[2].tag, table_directory.tables[1].tag>>

(***************************************************************************)
(* C3                                                                      *)
(***************************************************************************)
\* C3: whatever tables write_to_buf has written after the header region,
\* the offset of every table record is a multiple of 4, and so is the length
\* of the output buffer after each table.
TablesAligned ==
    /\ \A i \in 1..Len(ttf_tables) : ttf_tables[i].offset % 4 = 0
    /\ Len(out_buffer) % 4 = 0

\* a table whose length is no multiple of 4 has been written, and another
\* after it
TablesAlignedReached ==
    /\ Len(ttf_tables) >= 2
    /\ ttf_tables[1].length % 4 # 0
    /\ ttf_tables[2].offset > ttf_tables[1].offset + ttf_tables[1].length

(***************************************************************************)
(* C4                                                                      *)
(***************************************************************************)
\* a directory of untransformed tables with one glyf entry, one loca entry
\* after it but not next to it, and a head table long enough
LocaApartFromGlyf(tables) ==
    /\ \A i \in 1..Len(tables) : ~tables[i].transformed
    /\ \E g \in 1..Len(tables), l \in 1..Len(tables) :
          /\ g + 1 < l
          /\ \A i \in 1..Len(tables) :
                /\ tables[i].tag = GLYF_TAG <=> i = g
                /\ tables[i].tag = LOCA_TAG <=> i = l
    /\ \E i \in 1..Len(tables) : tables[i].tag = HEAD_TAG
    /\ \A i \in 1..Len(tables) : tables[i].tag = HEAD_TAG => as_usize(tables[i].src_length) >= 12

\* C4: a single font whose directory has other tables between glyf and loca
\* still decodes: once the Brotli stream has given the bytes of every table,
\* the call returns Ok.
LocaApartFromGlyfDecodes ==
    (/\ pc = "done"
     /\ ~IsCollection
     /\ Decompressed
     /\ Len(table_directory.tables) = header.num_tables
     /\ LocaApartFromGlyf(table_directory.tables)
     /\ Len(decompressed_tables) = as_usize(table_directory.uncompressed_length))
        => result = OkResult

TransformedHmtxUnsupported ==
    [][/\ (/\ pc = "write_tables"
           /\ CurrentTable.tag = HMTX_TAG
           /\ CurrentTable.transformed) =>
              /\ pc' = "done"
              /\ result' = Unsupported("transformed hmtx table")
       /\ result'.kind = "Unsupported" =>
              /\ result' = Unsupported("transformed hmtx table")
              /\ pc = "write_tables" \/ result = result'
              /\ CurrentTable.tag = HMTX_TAG
              /\ CurrentTable.transformed]_vars

\* a transformed hmtx entry after a table that was written has ended the
\* call with Unsupported
TransformedHmtxUnsupportedReached ==
    /\ pc = "done"
    /\ result = Unsupported("transformed hmtx table")
    /\ tables_iter >= 1
    /\ Len(ttf_tables) = tables_iter
    /\ CurrentTable.tag = HMTX_TAG

(***************************************************************************)
(* C7                                                                      *)
(***************************************************************************)
\* C7: when BrotliDecompress has succeeded, the call goes on exactly if the
\* decompressor consumed total_compressed_size + 1 bytes; with any other
\* count it returns Invalid("Compressed stream size does not match header")
\* having written no table.
CompressedSizeChecked ==
    [][(pc = "decompress" /\ pc' # pc /\ result' # Invalid(BrotliError)) =>
          IF compressed_size' = header.total_compressed_size + 1
          THEN pc' \in {"write_tables", "finalize"} /\ result' = NoResult
          ELSE /\ pc' = "done"
               /\ result' = Invalid("Compressed stream size does not match header")
               /\ ttf_tables' = <<>>
               /\ out_buffer' = <<>>]_vars

\* the decompressor consumed total_compressed_size bytes, one fewer than
\* the check asks, and the call ended Invalid with no table written
CompressedSizeCheckedReached ==
    /\ pc = "done"
    /\ compressed_size = header.total_compressed_size
    /\ result = Invalid("Compressed stream size does not match header")
    /\ header.num_tables > 0
    /\ ttf_tables = <<>>

(***************************************************************************)
(* C8                                                                      *)
(***************************************************************************)
\* C8: an input of at least 48 bytes that does not begin with "wOF2" ends
\* Invalid("Invalid magic word") whatever its flavor, before the flavor gate
\* and the table directory; an input of fewer than 48 bytes ends Invalid
\* with the truncated header message.
SignatureChecked ==
    /\ (pc # "header" /\ Len(input_buffer) < HEADER_SIZE) =>
           pc = "done" /\ result = Invalid("Truncated header")
    /\ (/\ pc \notin {"header", "validate"}
        /\ Len(input_buffer) >= HEADER_SIZE
        /\ SubSeq(input_buffer, 1, 4) # WOFF2_SIGNATURE) =>
           /\ pc = "done"
           /\ result = Invalid("Invalid magic word")
           /\ table_directory.tables = <<>>

\* an input that begins with "wOFF" and whose flavor is none of the three
\* accepted has ended with the magic word message
SignatureCheckedReached ==
    /\ pc = "done"
    /\ Len(input_buffer) = HEADER_SIZE
    /\ SubSeq(input_buffer, 1, 4) = <<119, 79, 70, 70>>
    /\ header.flavor \notin {TTF_COLLECTION_FLAVOR, TTF_CFF_FLAVOR, TTF_TRUE_TYPE_FLAVOR}
    /\ result = Invalid("Invalid magic word")

(***************************************************************************)
(* C9                                                                      *)
(***************************************************************************)
\* the next glyph of the loop of parse_all_glyphs is decoded as a composite
\* glyph: its loca entry is put, and its nContours is read and is negative
NextGlyphIsComposite ==
    /\ pc = "glyf_loop"
    /\ decoder.glyph_index < decoder.dec.num_glyphs
    /\ ~loca_entry(decoder.dec.index_format > 0, Len(decoder.output_glyf_table)).panic
    /\ try_get_i16(decoder.dec.n_contour_stream).err = ""
    /\ try_get_i16(decoder.dec.n_contour_stream).val < 0

\* C9: a glyph decoded as composite whose bit of the bbox bitmap (most
\* significant bit first, at the glyph's index) is not set ends the decoding
\* with CompositeGlyphWithoutBbox, surfaced as Invalid, whatever
\* compositeStream holds, and with compositeStream not read.
CompositeWithoutBboxFails ==
    [][(/\ NextGlyphIsComposite
        /\ ~bit_msb0(decoder.dec.bbox_bitmap, decoder.glyph_index)
        /\ pc' # pc) =>
          /\ pc' = "done"
          /\ result' = Invalid("Composite glyph without bbox")
          /\ decoder'.err = "CompositeGlyphWithoutBbox"
          /\ decoder'.dec.composite_stream = decoder.dec.composite_stream]_vars

\* the second glyph of a table, composite and without its bit, has ended the
\* decoding with CompositeGlyphWithoutBbox although compositeStream is empty
CompositeWithoutBboxFailsReached ==
    /\ pc = "done"
    /\ result = Invalid("Composite glyph without bbox")
    /\ decoder.glyph_index = 1
    /\ ~bit_msb0(decoder.dec.bbox_bitmap, 1)
    /\ decoder.dec.composite_stream = Cursor(<<>>)

(***************************************************************************)
(* C10                                                                     *)
(***************************************************************************)
\* C10: a single font whose directory has no head entry (the directory of no
\* tables included) and that passes every stage before the search for head
\* ends Invalid with the missing head message: not Ok, and not a panic.
MissingHeadIsInvalid ==
    (/\ Finalized
     /\ ~IsCollection
     /\ \A i \in 1..Len(table_directory.tables) :
            table_directory.tables[i].tag # HEAD_TAG)
        => result = Invalid("Missing 'head' table")

(***************************************************************************)
(* C11                                                                     *)
(***************************************************************************)
\* the bytes the last call of a reader found before it
Unread == Slice(arg.data, ret.pos, Len(arg.data))

\* the bytes of a UIntBase128 at the front of rest: up to five bytes, ending
\* with the first byte whose top bit is clear
Base128Bytes(rest) ==
    LET n == IF Len(rest) < 5 THEN Len(rest) ELSE 5
        ends == {k \in 1..n : rest[k] < 128}
    IN  IF ends = {} THEN SubSeq(rest, 1, n)
        ELSE SubSeq(rest, 1, CHOOSE k \in ends : \A j \in ends : k <= j)

\* whether the bytes end with a byte whose top bit is clear
Terminated(bytes) == bytes # <<>> /\ bytes[Len(bytes)] < 128

\* the 7-bit groups of up to five bytes, as five groups, the missing leading
\* groups zero
GroupsOf(bytes) == [i \in 1..5 |-> IF i <= 5 - Len(bytes) THEN 0 ELSE bytes[i - (5 - Len(bytes))] % 128]

\* whether the value of five groups is 2^32 or more
TooWide(g) == g[1] >= 16

\* the value below 2^32 of five groups, as <<hi, lo>>
ValueOfGroups(g) ==
    <<(g[1] % 16) * 4096 + g[2] * 32 + (g[3] \div 4),
      (g[3] % 4) * 16384 + g[4] * 128 + g[5]>>

\* what the claim says of a call on the bytes rest, its cases taken in the
\* order the claim gives them: <<err, value>>
Base128Expected(rest) ==
    LET bytes == Base128Bytes(rest)
    IN  IF rest # <<>> /\ rest[1] = 128 THEN <<"LeadingZero", <<0, 0>>>>
        ELSE IF Len(bytes) = 5 /\ TooWide(GroupsOf(bytes)) THEN <<"Overflow", <<0, 0>>>>
        ELSE IF Terminated(bytes) THEN <<"", ValueOfGroups(GroupsOf(bytes))>>
        ELSE IF Len(bytes) = 5 THEN <<"MoreThan5Bytes", <<0, 0>>>>
        ELSE <<"Truncated", <<0, 0>>>>

\* C11: try_get_base_128 returns Ok(v) exactly on a UIntBase128 of one to
\* five bytes that does not start with 0x80 and whose value v is below 2^32;
\* a first byte 0x80 gives LeadingZero, a value of 2^32 or more Overflow,
\* five bytes with the top bit set MoreThan5Bytes, and an input that ends
\* before a byte with the top bit clear Truncated.  The value a test encoded
\* is the value returned.
Base128Decodes ==
    ret.op = "try_get_base_128" =>
        /\ ret.err = Base128Expected(Unread)[1]
        /\ ret.err = "" => ret.val = Base128Expected(Unread)[2]
        /\ (arg.kind = "UIntBase128" /\ ret.pos = 0) =>
               (ret.err = "" /\ ret.val = arg.expected)

\* the largest u32 has been decoded from its five bytes
Base128DecodesReached ==
    /\ ret.op = "try_get_base_128"
    /\ arg.kind = "UIntBase128"
    /\ arg.expected = <<65535, 65535>>
    /\ Len(arg.data) = 5
    /\ ret.err = ""
    /\ ret.val = <<65535, 65535>>

(***************************************************************************)
(* C12                                                                     *)
(***************************************************************************)
\* what the rules of the claim give for a 255UInt16 at the front of rest:
\* <<value, bytes read>>, or <<>> when rest ends before the encoding does
U255Expected(rest) ==
    IF rest = <<>> THEN <<>>
    ELSE IF rest[1] = 253 THEN (IF Len(rest) < 3 THEN <<>> ELSE <<rest[2] * 256 + rest[3], 3>>)
    ELSE IF rest[1] = 255 THEN (IF Len(rest) < 2 THEN <<>> ELSE <<rest[2] + 253, 2>>)
    ELSE IF rest[1] = 254 THEN (IF Len(rest) < 2 THEN <<>> ELSE <<rest[2] + 506, 2>>)
    ELSE <<rest[1], 1>>

\* C12: try_get_255_u16 on the 255UInt16 encoding of a u16 returns it; on any
\* bytes, a first byte 253 gives the big-endian u16 that follows, 255 the
\* next byte + 253, 254 the next byte + 506, any other byte itself; and the
\* reader has advanced by the one, two or three bytes of the encoding.
U255Decodes ==
    ret.op = "try_get_255_u16" =>
        /\ U255Expected(Unread) # <<>> =>
               /\ ret.err = ""
               /\ ret.val = U255Expected(Unread)[1]
               /\ buf.pos = ret.pos + U255Expected(Unread)[2]
        /\ (arg.kind = "255UInt16" /\ ret.pos = 0) =>
               /\ ret.err = ""
               /\ ret.val = arg.expected[2]
               /\ buf.pos = Len(Encode255UInt16(arg.expected[2]))

\* 65535 has been decoded from its three bytes
U255DecodesReached ==
    /\ ret.op = "try_get_255_u16"
    /\ arg.kind = "255UInt16"
    /\ arg.expected = <<0, 65535>>
    /\ ret.pos = 0
    /\ ret.val = 65535
    /\ buf.pos = 3

(***************************************************************************)
(* C13                                                                     *)
(***************************************************************************)
RECURSIVE WeightedSum(_, _, _, _)
\* the sum over i <= n of weight * data[i], for the i with i % 4 = residue
WeightedSum(data, n, residue, weight) ==
    IF n = 0 THEN 0
    ELSE WeightedSum(data, n - 1, residue, weight)
         + (IF n % 4 = residue THEN weight * data[n] ELSE 0)

\* the sum modulo 2^32 of the big-endian 32-bit words of the data, the last
\* word completed with zeros, as <<hi, lo>>: the first and second byte of
\* every word are summed into the upper half, the third and fourth into the
\* lower half, which carries into the upper
WordSum(data) ==
    LET hi == WeightedSum(data, Len(data), 1, 256) + WeightedSum(data, Len(data), 2, 1)
        lo == WeightedSum(data, Len(data), 3, 256) + WeightedSum(data, Len(data), 0, 1)
    IN  <<(hi + (lo \div 65536)) % 65536, lo % 65536>>

\* C13: calculate_checksum of a block is the sum modulo 2^32 of its
\* big-endian 32-bit words, the last completed with zeros; so the checksum of
\* the block extended with zeros to a multiple of four is the checksum of
\* the block.
ChecksumIgnoresZeroPadding ==
    ret.op = "calculate_checksum" =>
        /\ ret.val = WordSum(SubSeq(arg, 1, ret.len))
        /\ ret.val = ret.first

\* a block whose sum exceeds 2^32 has had its checksum calculated, has been
\* extended with zeros to a multiple of four, and has had its checksum
\* calculated again
ChecksumIgnoresZeroPaddingReached ==
    /\ ret.op = "calculate_checksum"
    /\ ret.first_len % 4 # 0
    /\ ret.len > ret.first_len
    /\ ret.len % 4 = 0
    /\ ret.first_len = 5
    /\ SubSeq(arg, 1, 5) = <<255, 255, 255, 255, 255>>
    /\ ret.val = <<65279, 65535>>

(***************************************************************************)
(* C14                                                                     *)
(***************************************************************************)
\* C14: a step of try_copy_to_buf(dest, n) on a source with at least n bytes
\* left appends the next n bytes of the source to dest in their order and
\* advances the source by n; on a source with fewer bytes left it fails with
\* Truncated and changes neither the source nor dest.
CopyFrame ==
    [][ret'.op = "try_copy_to_buf" =>
          IF remaining(buf) >= ret'.num_bytes
          THEN /\ ret'.err = ""
               /\ dest' = dest \o Slice(buf.data, buf.pos, buf.pos + ret'.num_bytes)
               /\ buf'.pos = buf.pos + ret'.num_bytes
               /\ buf'.data = buf.data
          ELSE /\ ret'.err = "Truncated"
               /\ buf' = buf
               /\ dest' = dest]_vars

\* after a copy of two bytes and a put_u8, a copy of two bytes across the
\* chunks of the source has succeeded and a copy of one byte more than is
\* left has failed
CopyFrameReached ==
    /\ ret.op = "try_copy_to_buf"
    /\ ret.err = "Truncated"
    /\ "chunk_len" \in DOMAIN buf
    /\ buf.chunk_len = 1
    /\ buf.pos = 4
    /\ dest = <<1, 2, 0, 3, 4>>

(***************************************************************************)
(* C15                                                                     *)
(***************************************************************************)
RECURSIVE DirectoryStart(_, _)
\* where the table directory of font i of a collection starts: after the 12
\* bytes of the TTC header, the offsets of the fonts and the directories of
\* the fonts before it, each of 12 bytes and 16 for every table
DirectoryStart(fonts, i) ==
    IF i = 1 THEN 12 + 4 * Len(fonts)
    ELSE DirectoryStart(fonts, i - 1) + 12 + 16 * Len(fonts[i - 1].table_indices)

\* the call on a collection has returned Ok
CollectionDone == pc = "done" /\ result = OkResult /\ IsCollection

\* C15: the header of an emitted collection is "ttcf", version 0x00010000
\* whatever the version of the input, numFonts, the offsets of the table
\* directories and the directories: offset i is where the directory of font
\* i starts, the directories fill the header up to its last byte, and the
\* header is calculate_header_size() bytes long.
CollectionHeaderLayout ==
    CollectionDone =>
        LET fonts == collection_header.fonts
        IN  /\ Slice(out_buffer, 0, 4) = <<116, 116, 99, 102>>
            /\ Slice(out_buffer, 4, 8) = <<0, 1, 0, 0>>
            /\ U32At(out_buffer, 8) = Len(fonts)
            /\ \A i \in 1..Len(fonts) :
                  /\ U32At(out_buffer, 12 + 4 * (i - 1)) = DirectoryStart(fonts, i)
                  /\ Slice(out_buffer, DirectoryStart(fonts, i), DirectoryStart(fonts, i) + 4)
                         = fonts[i].flavor
                  /\ U16At(out_buffer, DirectoryStart(fonts, i) + 4)
                         = Len(fonts[i].table_indices)
            /\ header_end = DirectoryStart(fonts, Len(fonts) + 1)
            /\ header_end = CollectionHeader_calculate_header_size(collection_header)
            /\ fonts # <<>> =>
                  \E k \in 1..Len(ttf_tables) :
                      Slice(out_buffer, header_end - 16, header_end - 12) = ttf_tables[k].tag

\* a collection of version 0x00020000 with two fonts of one and of two
\* tables has been emitted
CollectionHeaderLayoutReached ==
    /\ CollectionDone
    /\ collection_header.version = COLLECTION_V2
    /\ Len(collection_header.fonts) = 2
    /\ Len(collection_header.fonts[1].table_indices) = 1
    /\ Len(collection_header.fonts[2].table_indices) = 2
    /\ U32At(out_buffer, 16) = 48

(***************************************************************************)
(* C16                                                                     *)
(***************************************************************************)
\* n rounded up to a multiple of four
RoundUp4(n) == ((n + 3) \div 4) * 4

RECURSIVE PaddedLengths(_, _)
\* the sum of the lengths of the first n records, each rounded up to four
PaddedLengths(records, n) ==
    IF n = 0 THEN 0 ELSE PaddedLengths(records, n - 1) + RoundUp4(records[n].length)

\* the bytes of directory entry k as the Brotli stream gave them, with the
\* checkSumAdjustment of a head table zeroed
SourceBytes(k) ==
    LET table == table_directory.tables[k]
        src == Slice(decompressed_tables, as_usize(table.src_offset),
                     as_usize(table.src_offset) + as_usize(table.src_length))
    IN  IF table.tag = HEAD_TAG
        THEN Slice(src, 0, 8) \o <<0, 0, 0, 0>> \o Slice(src, 12, Len(src))
        ELSE src

\* the 16 bytes of record j of the table directory of font i of the output
EmittedRecord(i, j) ==
    Slice(out_buffer, DirectoryStart(collection_header.fonts, i) + 12 + 16 * (j - 1),
          DirectoryStart(collection_header.fonts, i) + 12 + 16 * j)

\* the 16 bytes of a table record
RecordBytes(t) == t.tag \o put_u16(t.checksum[1]) \o put_u16(t.checksum[2])
                  \o put_u32(t.offset) \o put_u32(t.length)

\* C16: in an emitted collection every directory entry has one table record,
\* whose bytes are in the output once (the output is the header and the
\* tables of the records, one after the other, each padded to four bytes),
\* and every record of a font's table directory is the record of one of the
\* directory indices of the font, with its tag, checksum, offset and length.
SharedTablesWrittenOnce ==
    CollectionDone =>
        /\ Len(ttf_tables) = Len(table_directory.tables)
        /\ Len(out_buffer) = header_end + PaddedLengths(ttf_tables, Len(ttf_tables))
        /\ \A k \in 1..Len(ttf_tables) :
              /\ ttf_tables[k].tag = table_directory.tables[k].tag
              /\ ttf_tables[k].offset = header_end + PaddedLengths(ttf_tables, k - 1)
              /\ Slice(out_buffer, ttf_tables[k].offset,
                       ttf_tables[k].offset + ttf_tables[k].length) = SourceBytes(k)
        /\ \A i \in 1..Len(collection_header.fonts) :
              LET indices == collection_header.fonts[i].table_indices
              IN  /\ \A j \in 1..Len(indices) :
                        \E x \in 1..Len(indices) :
                            EmittedRecord(i, j) = RecordBytes(ttf_tables[indices[x] + 1])
                  /\ \A x \in 1..Len(indices) :
                        \E j \in 1..Len(indices) :
                            EmittedRecord(i, j) = RecordBytes(ttf_tables[indices[x] + 1])

\* a collection of two fonts that both hold table 0 has been emitted
SharedTablesWrittenOnceReached ==
    /\ CollectionDone
    /\ Len(table_directory.tables) = 2
    /\ Len(collection_header.fonts) = 2
    /\ collection_header.fonts[1].table_indices = <<0>>
    /\ Len(collection_header.fonts[2].table_indices) = 2
    /\ EmittedRecord(1, 1) \in {EmittedRecord(2, 1), EmittedRecord(2, 2)}

(***************************************************************************)
(* C17                                                                     *)
(***************************************************************************)
\* the stages a stage may be followed by when it does not fail
StagesAfter(stage) ==
    CASE stage = "header" -> {"validate"}
      [] stage = "validate" -> {"flavor"}
      [] stage = "flavor" -> {"table_directory", "collection", "decompress"}
      [] stage = "table_directory" -> {"table_directory", "collection", "decompress"}
      [] stage = "collection" -> {"decompress"}
      [] stage = "decompress" -> {"write_tables", "finalize"}
      [] stage = "write_tables" -> {"write_tables", "finalize"}
      [] stage = "finalize" -> {}
      [] OTHER -> {}

\* the stages that read the table directory and what follows it
DirectoryStages == {"table_directory", "collection"}

\* no byte of the table directory or of the collection directory was read
NoDirectoryRead ==
    /\ table_directory' = [tables |-> <<>>, uncompressed_length |-> <<0, 0>>]
    /\ ~collection_header'.present /\ collection_header'.source = <<>>

\* no byte of the Brotli stream was read and nothing was written
NoStreamRead ==
    /\ compressed_size' = 0 /\ decompressed_tables' = <<>>
    /\ header_end' = 0 /\ out_buffer' = <<>> /\ ttf_tables' = <<>>

\* one step of the call: it ends with the result of the stage it is in, or
\* it goes to a stage that may follow
StageStep ==
    /\ pc # "done"
    /\ pc' \in StagesAfter(pc) \cup {"done"}
    /\ (pc' = "done") = (result' # NoResult)
    /\ result' = OkResult => pc = "finalize"
    /\ pc = "finalize" => pc' = "done"
    \* the collection directory is read after the table directory, of a
    \* collection only
    /\ (pc' = "collection") =
           (/\ pc \in {"flavor", "table_directory"}
            /\ pc' \notin {"done", "table_directory"}
            /\ header.flavor = TTF_COLLECTION_FLAVOR)
    /\ pc' = "table_directory" => pc \in {"flavor", "table_directory"}
    /\ pc' = "decompress" /\ header.flavor = TTF_COLLECTION_FLAVOR => pc = "collection"
    /\ pc' = "write_tables" => compressed_size' = header.total_compressed_size + 1
    \* a stage that fails returns its own error
    /\ pc' = "done" =>
          /\ pc = "header" => result' = Invalid("Truncated header")
          /\ pc = "validate" => result' = Invalid("Invalid magic word")
          /\ pc = "flavor" => result' = Invalid("Invalid font flavor")
          /\ pc = "collection" => result'.kind = "Invalid"
          /\ pc = "decompress" /\ result'.kind = "Invalid" =>
                 result'.reason \in {BrotliError, "Compressed stream size does not match header"}
    /\ pc = "flavor" =>
          (pc' = "done") = (header.flavor \notin {TTF_COLLECTION_FLAVOR, TTF_CFF_FLAVOR,
                                                  TTF_TRUE_TYPE_FLAVOR})
    \* the stages after the one that fails have not run
    /\ pc' = "done" /\ pc \in {"header", "validate", "flavor"} => NoDirectoryRead
    /\ pc' = "done" /\ pc = "table_directory" =>
          ~collection_header'.present /\ collection_header'.source = <<>>
    /\ pc' = "done" /\ pc \in {"header", "validate", "flavor"} \cup DirectoryStages =>
          NoStreamRead
    /\ pc' = "done" /\ pc = "decompress" /\ result'.kind = "Invalid" =>
          out_buffer' = <<>> /\ ttf_tables' = <<>>

\* C17: the call goes through header parse, signature check, flavor gate,
\* table directory, collection directory (of a collection only), Brotli
\* decompression with the size check, table writeout and header
\* finalization in this order; a stage that fails ends the call with its
\* error and no later stage runs; Ok comes from the last stage only; a
\* flavor that is not ttcf, OTTO or 00 01 00 00 gives Invalid("Invalid font
\* flavor") with no directory byte read.
StagesInOrder == [][StageStep]_vars

\* a call on a collection went through every stage and returned Ok
StagesInOrderReached ==
    /\ CollectionDone
    /\ table_directory.tables # <<>>
    /\ collection_header.source # <<>>
    /\ compressed_size = header.total_compressed_size + 1
    /\ Len(ttf_tables) = Len(table_directory.tables)

(***************************************************************************)
(* C18                                                                     *)
(***************************************************************************)
\* CollectionHeader::from_buf has been called and has returned
CollectionParsed ==
    \/ collection_header.present
    \/ pc = "done" /\ collection_header.source # <<>>

\* the collection directory starts with a version, one font and the number
\* of tables of the font, the counts in one byte each
OneByteCounts(source) ==
    /\ Len(source) >= 6
    /\ U32At(source, 0) \in {COLLECTION_V1, COLLECTION_V2}
    /\ source[5] \in 1..252
    /\ source[6] \in 0..252

\* C18: CollectionHeader::from_buf returns a header only of version
\* 0x00010000 or 0x00020000 (another version is InvalidCollectionVersion),
\* whose fonts have one table index or more (a font of no tables is NoTables),
\* each below total_num_tables (another is InvalidTableIndex): an index of
\* the returned header is an index into the table directory, and into the
\* table records when the directories of the fonts are written.
CollectionIndicesValid ==
    /\ collection_header.present =>
          /\ collection_header.version \in {COLLECTION_V1, COLLECTION_V2}
          /\ U32At(collection_header.source, 0) = collection_header.version
          /\ \A i \in 1..Len(collection_header.fonts) :
                LET indices == collection_header.fonts[i].table_indices
                IN  /\ indices # <<>>
                    /\ \A x \in 1..Len(indices) :
                          /\ indices[x] \in 0..(header.num_tables - 1)
                          /\ indices[x] + 1 \in DOMAIN table_directory.tables
                          /\ pc = "finalize" => indices[x] + 1 \in DOMAIN ttf_tables
    /\ CollectionParsed /\ Len(collection_header.source) >= 4
       /\ U32At(collection_header.source, 0) \notin {COLLECTION_V1, COLLECTION_V2} =>
          /\ ~collection_header.present
          /\ result = Invalid("Invalid collection header version")
    /\ CollectionParsed /\ OneByteCounts(collection_header.source)
       /\ collection_header.source[6] = 0 =>
          /\ ~collection_header.present
          /\ result = Invalid("No tables in font")
    /\ CollectionParsed /\ OneByteCounts(collection_header.source)
       /\ collection_header.source[6] # 0 /\ Len(collection_header.source) >= 11
       /\ collection_header.source[11] \in header.num_tables..252 =>
          /\ ~collection_header.present
          /\ result = Invalid("Invalid table index")
    /\ result = Invalid("No tables in font") =>
          \E p \in 6..Len(collection_header.source) : collection_header.source[p] = 0
    /\ result = Invalid("Invalid table index") =>
          \E p \in 7..Len(collection_header.source) :
              collection_header.source[p] \in header.num_tables..252

\* a collection directory of two fonts has been parsed, the second of them
\* with the last table of the file
CollectionIndicesValidReached ==
    /\ pc = "decompress"
    /\ collection_header.present
    /\ Len(collection_header.fonts) = 2
    /\ \E x \in 1..Len(collection_header.fonts[2].table_indices) :
          collection_header.fonts[2].table_indices[x] = header.num_tables - 1

(***************************************************************************)
(* C19                                                                     *)
(***************************************************************************)
\* floor(log2(n)) of n in 1..65535
FloorLog2(n) == CHOOSE e \in 0..15 : Pow2(e) <= n /\ n < Pow2(e + 1)

\* TableDirectory::new has returned or panicked
DirectoryBuilt == ret.op \in {"TableDirectory::new", "TableDirectory::write_to_buf"}

\* C19: of n table records, n in 1..65535, TableDirectory::new makes a
\* directory with entry_selector = floor(log2(n)), search_range =
\* 2^entry_selector * 16 and range_shift = n * 16 - search_range, with no
\* overflow and no wrap-around of the 16-bit fields, and the directory is
\* written in 12 + 16 * n bytes.
DirectoryFieldsExact ==
    DirectoryBuilt =>
        /\ ~ret.panic
        /\ ret.num_tables = arg.num_tables
        /\ ret.entry_selector = FloorLog2(arg.num_tables)
        /\ ret.search_range = Pow2(FloorLog2(arg.num_tables)) * 16
        /\ ret.range_shift = arg.num_tables * 16 - ret.search_range
        /\ ret.op = "TableDirectory::write_to_buf" => Len(dest) = 12 + 16 * arg.num_tables

(***************************************************************************)
(* C20                                                                     *)
(***************************************************************************)
RECURSIVE SumOfLengths(_, _)
\* the sum of src_length of the first n entries, not reduced to 32 bits: the
\* pair <<sum div 65536, sum mod 65536>>
SumOfLengths(tables, n) ==
    IF n = 0 THEN <<0, 0>>
    ELSE LET s == SumOfLengths(tables, n - 1)
             lo == s[2] + tables[n].src_length[2]
         IN  <<s[1] + tables[n].src_length[1] + (lo \div 65536), lo % 65536>>

\* Woff2TableDirectory::from_buf has panicked
FromBufPanicked ==
    /\ pc = "done" /\ result = Panic
    /\ Len(table_directory.tables) \in 1..header.num_tables
    /\ compressed_size = 0 /\ ~collection_header.present

\* C20: the entries Woff2TableDirectory::from_buf has parsed have src_offset
\* the sum of src_length of the entries before them, so that their source
\* ranges follow one another, and uncompressed_length is the sum of
\* src_length of them all, the sums being those of the lengths and not
\* reduced modulo 2^32; from_buf does not overflow.
SourceRangesContiguous ==
    /\ \A i \in 1..Len(table_directory.tables) :
          table_directory.tables[i].src_offset = SumOfLengths(table_directory.tables, i - 1)
    /\ table_directory.uncompressed_length
           = SumOfLengths(table_directory.tables, Len(table_directory.tables))
    /\ ~FromBufPanicked


(***************************************************************************)
(* C21                                                                     *)
(***************************************************************************)
\* the position after the UIntBase128 that starts at position start of the
\* data: after its first byte with the top bit clear
AfterVarint(data, start) ==
    1 + CHOOSE i \in (start + 1)..Len(data) :
            data[i] < 128 /\ \A j \in (start + 1)..(i - 1) : data[j] >= 128

\* the value of the UIntBase128 in data[start + 1 .. end], of three bytes at
\* most, as a u32
VarintValue(data, start, end) ==
    u32_of(IF end - start = 1 THEN data[start + 1]
           ELSE IF end - start = 2 THEN (data[start + 1] - 128) * 128 + data[start + 2]
           ELSE (data[start + 1] - 128) * 16384 + (data[start + 2] - 128) * 128
                + data[start + 3])

\* the top two bits of the flags byte of the entry
VersionBits == arg[1] \div 64

\* where the tag of the entry ends
TagEnd == IF arg[1] % 64 = 63 THEN 5 ELSE 1

\* the tag the flags byte names or the FourCC after it
EntryTag == IF arg[1] % 64 = 63 THEN SubSeq(arg, 2, 5) ELSE KNOWN_TABLE_TAGS[(arg[1] % 64) + 1]

\* the entry has the null transform, by its tag and its version bits
NullTransformed ==
    IF EntryTag \in {<<103, 108, 121, 102>>, <<108, 111, 99, 97>>}
    THEN VersionBits = 3 ELSE VersionBits = 0

EntryParsed == ret.op = "PartialTableDirectoryEntry::from_buf" /\ ret.err = ""

\* C21: a parsed entry is null-transformed iff the two top bits of its flags
\* are 0b11 for glyf and loca, 0b00 for any other tag, the tag being a known
\* tag or a FourCC in the entry; a transformed entry has a transformLength
\* after origLength, which is its src_length; a null-transformed entry has
\* none, no second number is read and its src_length is its orig_length.
TagDecidesTransform ==
    EntryParsed =>
        LET after_orig == AfterVarint(arg, TagEnd)
        IN  /\ ret.val.tag = EntryTag
            /\ ret.val.transformed = ~NullTransformed
            /\ ret.val.dest_length = VarintValue(arg, TagEnd, after_orig - 1)
            /\ IF NullTransformed
               THEN /\ ret.transform_length = None
                    /\ buf.pos = after_orig - 1
                    /\ ret.val.src_length = ret.val.dest_length
               ELSE /\ ret.transform_length # None
                    /\ buf.pos = AfterVarint(arg, after_orig - 1) - 1
                    /\ ret.val.src_length = ret.transform_length
                    /\ ret.val.src_length
                           = VarintValue(arg, after_orig - 1, buf.pos)

\* a loca entry given by its FourCC, with the bits 0b00 and so transformed,
\* has been parsed: its transformLength is not its origLength
TagDecidesTransformReached ==
    /\ EntryParsed
    /\ arg[1] = 63
    /\ ret.val.tag = LOCA_TAG
    /\ ret.val.transformed
    /\ ret.val.src_length # ret.val.dest_length
    /\ buf.pos < Len(arg)

(***************************************************************************)
(* C26                                                                     *)
(***************************************************************************)
\* decode_glyf_table has returned the glyf table of the described glyph
GlyphDecoded == pc = "done" /\ result = OkResult

\* the glyph record of the output
OutputGlyph == decoder.output_glyf_table

\* the decoded dx and dy of point i of the described glyph
DecodedDx(i) ==
    triplet_dx(COORD_LUT(arg.points[i][1] % 128), arg.points[i][2], overflow_checks).val

DecodedDy(i) ==
    triplet_dy(COORD_LUT(arg.points[i][1] % 128), arg.points[i][2], overflow_checks).val

\* the bits (short vector, is same) of a delta
ShortBit(d) == IF d # 0 /\ d >= -255 /\ d <= 255 THEN 1 ELSE 0

SameBit(d) == IF d >= 0 /\ d <= 255 THEN 1 ELSE 0

\* the coordinate bytes of a delta
CoordinateBytes(d) ==
    IF d = 0 THEN <<>>
    ELSE IF d >= 1 /\ d <= 255 THEN <<d>>
    ELSE IF d >= -255 /\ d <= -1 THEN <<0 - d>>
    ELSE <<((d + 65536) % 65536) \div 256, (d + 65536) % 256>>

\* the flag byte of point i of the described glyph
PointFlag(i) ==
    (IF arg.points[i][1] < 128 THEN 1 ELSE 0)
    + 2 * ShortBit(DecodedDx(i)) + 16 * SameBit(DecodedDx(i))
    + 4 * ShortBit(DecodedDy(i)) + 32 * SameBit(DecodedDy(i))
    + (IF arg.overlap = 2 THEN 64 ELSE 0)

\* where the flags of the simple glyph start in its record: after
\* numberOfContours, the bounding box, the end points and instructionLength
FlagsStart == 10 + 2 * arg.n_contours + 2

\* C26: the flags and the coordinates of a simple glyph.  A delta of 0 has
\* short vector 0, is same 1 and no byte; of 1..255, short vector 1, is same
\* 1 and the byte d; of -255..-1, short vector 1, is same 0 and the byte -d;
\* any other, both bits 0 and d as a big-endian i16 (x in the bits 1 and 4,
\* y in the bits 2 and 5).  Bit 0 is set iff the top bit of the byte of
\* flagStream is clear, and bit 6 iff the overlap bitmap is there with the
\* bit of the glyph set.
SimpleGlyphFlags ==
    GlyphDecoded /\ arg.n_contours > 0 =>
        LET n == Len(arg.points)
            xs == ConcatAll([i \in 1..n |-> CoordinateBytes(DecodedDx(i))])
            ys == ConcatAll([i \in 1..n |-> CoordinateBytes(DecodedDy(i))])
        IN  /\ Slice(OutputGlyph, FlagsStart, FlagsStart + n) = [i \in 1..n |-> PointFlag(i)]
            /\ Slice(OutputGlyph, FlagsStart + n, FlagsStart + n + Len(xs)) = xs
            /\ Slice(OutputGlyph, FlagsStart + n + Len(xs),
                     FlagsStart + n + Len(xs) + Len(ys)) = ys
            /\ Len(OutputGlyph)
                   = ((FlagsStart + n + Len(xs) + Len(ys) + 3) \div 4) * 4

\* a glyph with the overlap bit, of a point off the curve with dx = 256 and
\* dy = -256 and a point with dx = 0, has been decoded
SimpleGlyphFlagsReached ==
    /\ GlyphDecoded
    /\ arg.n_contours = 1
    /\ arg.overlap = 2
    /\ Len(arg.points) = 2
    /\ DecodedDx(1) = 256 /\ DecodedDy(1) = -256 /\ arg.points[1][1] >= 128
    /\ DecodedDx(2) = 0 /\ DecodedDy(2) = 7

(***************************************************************************)
(* C27                                                                     *)
(***************************************************************************)
\* nPoints_0 + ... + nPoints_(i-1) of the described glyph
PointsUpTo(i) == SumSeq(SubSeq(arg.n_points, 1, i))

\* C27: for a simple glyph of c > 0 contours and any point counts, 0
\* included, endPtsOfContours[i] is the sum of the counts up to contour i,
\* less one, computed without underflow or overflow, and the sequence is
\* non-decreasing.
EndPointsExact ==
    pc = "done" /\ arg.n_contours > 0 =>
        /\ result = OkResult
        /\ \A i \in 1..arg.n_contours :
               U16At(OutputGlyph, 10 + 2 * (i - 1)) = PointsUpTo(i) - 1
        /\ \A i \in 2..arg.n_contours :
               U16At(OutputGlyph, 10 + 2 * (i - 2)) <= U16At(OutputGlyph, 10 + 2 * (i - 1))

(***************************************************************************)
(* C28                                                                     *)
(***************************************************************************)
\* the outcome of decode_glyf_table for the error e of the decoder
GlyfFailure(e) == DecodeError_from_WriteTablesError("GlyfDecoderError", e)

\* the first component of the described glyph without MORE_COMPONENTS
\* (bit 5), or 0 when every component has it
LastComponent ==
    LET clear == {j \in 1..Len(arg.components) : (arg.components[j] \div 32) % 2 = 0}
    IN  IF clear = {} THEN 0 ELSE CHOOSE j \in clear : \A k \in clear : j <= k

\* the number of bytes that follow the flag word of a component
ArgumentLength(flag_word) ==
    4 + (IF flag_word % 2 = 1 THEN 2 ELSE 0)
      + (IF (flag_word \div 8) % 2 = 1 THEN 2
         ELSE IF (flag_word \div 64) % 2 = 1 THEN 4
         ELSE IF (flag_word \div 128) % 2 = 1 THEN 8
         ELSE 0)

\* the flag words and the bytes copied for the components 1..m: component j
\* starts in compositeStream where component j - 1 ended
ComponentRecords(m) ==
    LET stream == ConcatAll([j \in 1..Len(arg.components) |->
                                put_u16(arg.components[j])
                                    \o ComponentArguments(j, arg.components[j])])
        start[j \in 1..(m + 1)] ==
            IF j = 1 THEN 0 ELSE start[j - 1] + 2 + ArgumentLength(arg.components[j - 1])
    IN  ConcatAll([j \in 1..m |->
                      put_u16(arg.components[j])
                          \o Slice(stream, start[j] + 2,
                                   start[j] + 2 + ArgumentLength(arg.components[j]))])

\* the instruction length and the instructions emitted after component m
InstructionsAfter(m) ==
    IF \E j \in 1..m : (arg.components[j] \div 256) % 2 = 1
    THEN put_u16(Len(SampleInstructions)) \o SampleInstructions
    ELSE <<>>

\* C28: a composite glyph with a bounding box.  After each flag word, 4
\* bytes, 2 more with bit 0, and 2 more with bit 3, else 4 with bit 6, else
\* 8 with bit 7, are copied from compositeStream; the loop goes on while bit
\* 5 of the last flag word is set and stops at the first flag word without
\* it; the instruction length and the instructions follow the last component
\* iff some component read had bit 8.
CompositeComponents ==
    arg.n_contours = -1 /\ arg.bbox =>
        /\ pc = "glyf_loop" /\ decoder.glyph_index = 1 =>
               /\ LastComponent # 0
               /\ decoder.dec.composite_stream.pos = Len(ComponentRecords(LastComponent))
               /\ decoder.output_glyf_table
                      = pad_to_multiple_of_four(
                            put_i16(-1) \o OneBbox \o ComponentRecords(LastComponent)
                                \o InstructionsAfter(LastComponent))
        /\ pc = "done" =>
               result = IF LastComponent = 0 THEN GlyfFailure("Truncated")
                        ELSE IF LastComponent < Len(arg.components)
                        THEN GlyfFailure("ExtraData")
                        ELSE OkResult

\* a composite glyph of two components, the first with bit 0, bit 6 and bit
\* 7 (10 bytes), the second with bit 8, has been decoded
CompositeComponentsReached ==
    /\ GlyphDecoded
    /\ arg.n_contours = -1
    /\ arg.components = <<32 + 1 + 64 + 128, 256>>

(***************************************************************************)
(* C29                                                                     *)
(***************************************************************************)
\* C29: a glyph is decoded as a composite glyph exactly when the numContours
\* read is -1; 0 gives an empty glyph and a positive value a simple glyph,
\* and the numContours emitted is the value that was read.
NumContoursDecides ==
    pc = "glyf_loop" /\ decoder.glyph_index = 1 =>
        /\ (decoder.dec.composite_stream.pos > 0) = (arg.n_contours = -1)
        /\ (decoder.output_glyf_table = <<>>) = (arg.n_contours = 0)
        /\ (decoder.dec.n_points_stream.pos > 0) = (arg.n_contours > 0)
        /\ arg.n_contours # 0 =>
               as_i16(U16At(decoder.output_glyf_table, 0)) = arg.n_contours

(***************************************************************************)
(* C22                                                                     *)
(***************************************************************************)
\* num_glyphs and index_format of the transformed glyf table
NumGlyphs == U16At(glyf_table, 4)

IndexFormat == U16At(glyf_table, 6)

\* the numContours of glyph g (from 0) in nContourStream
NumContoursOf(g) == as_i16(U16At(glyf_table, GLYF_HEADER_SIZE + 2 * g))

\* the byte offset that entry g (from 0) of the reconstructed loca stands for
LocaOffset(g) ==
    IF IndexFormat = 0 THEN 2 * U16At(decoder.output_loca_table, 2 * g)
    ELSE U32At(decoder.output_loca_table, 4 * g)

\* C22: the loca of a transformed glyf of n glyphs that decodes has n + 1
\* entries, offset / 2 as u16 when index_format is 0 and u32 otherwise; entry
\* g is the offset in the output glyf where glyph g starts, the last entry
\* is the length of the glyf, the entries do not decrease, an empty glyph
\* has the entry of the next glyph, and every glyph start and the length of
\* the glyf are multiples of 4.
LocaOffsets ==
    /\ pc = "glyf_loop" =>
           /\ Len(decoder.output_glyf_table) % 4 = 0
           /\ Len(decoder.output_loca_table)
                  = decoder.glyph_index * (IF IndexFormat = 0 THEN 2 ELSE 4)
           /\ decoder.glyph_index > 0 =>
                  LocaOffset(decoder.glyph_index - 1) <= Len(decoder.output_glyf_table)
    /\ GlyphDecoded =>
           /\ Len(decoder.output_loca_table)
                  = (NumGlyphs + 1) * (IF IndexFormat = 0 THEN 2 ELSE 4)
           /\ LocaOffset(0) = 0
           /\ LocaOffset(NumGlyphs) = Len(decoder.output_glyf_table)
           /\ Len(decoder.output_glyf_table) % 4 = 0
           /\ \A g \in 0..(NumGlyphs - 1) :
                  /\ LocaOffset(g) % 4 = 0
                  /\ LocaOffset(g) <= LocaOffset(g + 1)
                  /\ NumContoursOf(g) = 0 => LocaOffset(g) = LocaOffset(g + 1)
                  /\ NumContoursOf(g) # 0 =>
                         /\ LocaOffset(g) < LocaOffset(g + 1)
                         /\ as_i16(U16At(decoder.output_glyf_table, LocaOffset(g)))
                                = NumContoursOf(g)

\* a table of an empty glyph and a composite glyph whose record of 18 bytes
\* is padded, with a loca of u16, has been decoded
LocaOffsetsReached ==
    /\ GlyphDecoded
    /\ NumGlyphs = 2 /\ IndexFormat = 0
    /\ NumContoursOf(0) = 0 /\ NumContoursOf(1) = -1
    /\ decoder.output_loca_table = put_u16(0) \o put_u16(0) \o put_u16(10)

(***************************************************************************)
(* C23                                                                     *)
(***************************************************************************)
\* the seven substream cursors of a decoder
SubstreamsOf(dec) ==
    <<dec.n_contour_stream, dec.n_points_stream, dec.flag_stream, dec.glyph_stream,
      dec.composite_stream, dec.bbox_stream, dec.instruction_stream>>

\* every glyph of the table has been processed
AllGlyphsProcessed ==
    pc = "glyf_loop" /\ decoder.glyph_index = decoder.dec.num_glyphs

\* each cursor is within its substream; Ok means that each is at its end;
\* a table whose only fault is one substream a byte short gives Truncated,
\* and one whose only fault is one substream a byte long gives ExtraData
CursorsInBounds ==
    /\ \A k \in 1..7 :
           /\ SubstreamsOf(decoder.dec)[k].pos >= 0
           /\ SubstreamsOf(decoder.dec)[k].pos <= Len(SubstreamsOf(decoder.dec)[k].data)
    /\ GlyphDecoded =>
           /\ decoder.glyph_index = NumGlyphs
           /\ \A k \in 1..7 :
                  SubstreamsOf(decoder.dec)[k].pos = Len(SubstreamsOf(decoder.dec)[k].data)
    /\ pc = "done" /\ glyf_table \in ShortTables => result = GlyfFailure("Truncated")
    /\ pc = "done" /\ glyf_table \in ResidualTables => result = GlyfFailure("ExtraData")

\* a step of the decoder: no cursor goes back; after the last glyph a
\* residual byte in any substream gives ExtraData; a glyph that reads past
\* the end of nContourStream gives Truncated
CursorStep ==
    /\ \A k \in 1..7 :
           SubstreamsOf(decoder'.dec)[k].pos >= SubstreamsOf(decoder.dec)[k].pos
    /\ pc = "glyf_loop" =>
           \A k \in 1..7 :
               SubstreamsOf(decoder'.dec)[k].data = SubstreamsOf(decoder.dec)[k].data
    /\ AllGlyphsProcessed /\ (\E k \in 1..7 : remaining(SubstreamsOf(decoder.dec)[k]) > 0) =>
           pc' = "done" /\ result' = GlyfFailure("ExtraData")
    /\ pc = "glyf_loop" /\ ~AllGlyphsProcessed /\ remaining(decoder.dec.n_contour_stream) < 2 =>
           pc' = "done" /\ result' = GlyfFailure("Truncated")

\* C23: decode_glyf_table returns Ok only if, after all the glyphs, each of
\* the seven substream cursors is at its end; a residual byte in any of
\* them gives ExtraData, a read past the end of a substream Truncated; at
\* every step each cursor is between 0 and the length of its substream and
\* never goes back.
SubstreamsConsumed == []CursorsInBounds /\ [][CursorStep]_vars

\* the table that reads all seven substreams has been decoded, each of them
\* non-empty and at its end
SubstreamsConsumedReached ==
    /\ GlyphDecoded
    /\ glyf_table = SevenStreams(FullStreams)
    /\ \A k \in 1..7 : SubstreamsOf(decoder.dec)[k].pos > 0

(***************************************************************************)
(* C24                                                                     *)
(***************************************************************************)
\* the length the header of the transformed glyf table announces: the
\* header, the seven substream sizes (the size of bboxStream counts the
\* bbox bitmap) and the overlap bitmap when option_flags has bit 0
AnnouncedLength ==
    GLYF_HEADER_SIZE
    + U32At(glyf_table, 8) + U32At(glyf_table, 12) + U32At(glyf_table, 16)
    + U32At(glyf_table, 20) + U32At(glyf_table, 24) + U32At(glyf_table, 28)
    + U32At(glyf_table, 32)
    + (IF U16At(glyf_table, 2) % 2 = 1 THEN bit_stream_byte_length(NumGlyphs) ELSE 0)

\* C24: the total of the header, the substream sizes, the bbox bitmap and
\* the overlap bitmap is checked against the length of the transformed
\* table; a table shorter or longer than the total, or a bboxStream size
\* smaller than the bbox bitmap, is reported as Truncated.
TotalLengthChecked ==
    /\ pc # "glyf_new"
    /\ Len(glyf_table) >= GLYF_HEADER_SIZE
    /\ \/ Len(glyf_table) # AnnouncedLength
       \/ U32At(glyf_table, 28) < bit_stream_byte_length(NumGlyphs)
    => pc = "done" /\ result = GlyfFailure("Truncated")

(***************************************************************************)
(* C25                                                                     *)
(***************************************************************************)
\* the head table with its bytes 8..12 set to zero
ZeroedAdjustment(table) ==
    [i \in 1..Len(table) |-> IF i \in 9..12 THEN 0 ELSE table[i]]

\* C25: the checksum of the TableRecord of a head table of 12 bytes or more
\* is the checksum of its bytes with the bytes 8..12 set to zero, whatever
\* checkSumAdjustment the input carries; set_checksum_adjustment changes
\* only the bytes 8..12 of the table; for a head table of less than 12
\* bytes it fails with Truncated, surfaced as Invalid, and leaves the bytes
\* of the table as they were.
HeadChecksumZeroed ==
    /\ ret.op = "write_to_buf" =>
           IF Len(arg) >= 12
           THEN /\ ret.result = OkResult
                /\ Len(ret.records) = 1
                /\ ret.records[1].tag = HEAD_TAG
                /\ ret.records[1].checksum = calculate_checksum(ZeroedAdjustment(arg))
                /\ ret.records[1].offset = ret.offset
                /\ ret.records[1].length = Len(arg)
                /\ Slice(dest, ret.offset, ret.offset + Len(arg)) = ZeroedAdjustment(arg)
           ELSE ret.result = Invalid("Truncated 'head' table")
    /\ ret.op = "set_checksum_adjustment" =>
           IF Len(arg) >= 12
           THEN /\ ret.err = ""
                /\ Len(ret.table) = Len(arg)
                /\ \A i \in 1..Len(arg) : i \notin 9..12 => ret.table[i] = arg[i]
                /\ Slice(ret.table, 8, 12) = u32_to_be_bytes(ret.val)
           ELSE /\ ret.err = "Truncated"
                /\ ret.table = arg

\* the record of a head table that carries the checkSumAdjustment FF FF FF
\* FF has been written
HeadChecksumZeroedReached ==
    /\ ret.op = "write_to_buf"
    /\ Len(arg) > 12
    /\ Slice(arg, 8, 12) = <<255, 255, 255, 255>>
    /\ ret.result = OkResult
    /\ ret.offset = 4

(***************************************************************************)
(* C30                                                                     *)
(***************************************************************************)
\* the next iteration of write_to_buf slices the decompressed tables for
\* the entry it stands before: a head table or a table copied as it is
SlicesCurrentTable ==
    /\ pc = "write_tables"
    /\ CurrentTable.tag \notin {GLYF_TAG, LOCA_TAG}
    /\ ~(CurrentTable.tag = HMTX_TAG /\ CurrentTable.transformed)

\* C30: whenever the writeout slices the decompressed buffer for an entry,
\* src_offset + src_length is at most the length of the buffer: a Brotli
\* stream that gives fewer bytes than uncompressed_length was rejected as
\* Invalid before, so that no access out of bounds is reachable.
SlicesInBounds ==
    SlicesCurrentTable =>
        /\ get_source_range(CurrentTable)[2] <= Len(decompressed_tables)
        /\ as_usize(table_directory.uncompressed_length) <= Len(decompressed_tables)


=============================================================================
